---- MODULE Spec2Model ----
(***************************************************************************)
(* aiListTodo: the task-decomposition client (TaskDecompositionService)    *)
(* and the localStorage layer (LocalStorageService), with the page         *)
(* handlers that drive them.                                               *)
(*                                                                         *)
(* Strings are sequences of tokens.  A token is one character (" ", "\n",  *)
(* "g", "a", "1", ".", "{", "}"), a fixed literal of the source kept as    *)
(* one token, or the complete one-line text of a JSON object.              *)
(* Dates are integers, milliseconds since the epoch; NoDate is undefined.  *)
(* An operation that can throw returns a record whose ok field is FALSE    *)
(* when it throws.                                                         *)
(***************************************************************************)
EXTENDS Integers, Sequences, FiniteSets, TLC

VARIABLES ls, now, dec, conn, tabs, home, conv

vars == <<ls, now, dec, conn, tabs, home, conv>>

----------------------------------------------------------------------------
(* Bounds of the model *)

MaxTasks == 2
MaxSteps == 2
MaxTicks == 1
MaxLogs == 2
MaxToggleLogs == 1
MaxContentLen == 2
TickMs == 30000

(* Program constants *)

NoDate == -1
MsPerMinute == 60000
MsPerDay == 86400000
MinFallbackSteps == 6
MaxErrorTextLen == 100
MaxFallbackLines == 10

----------------------------------------------------------------------------
(* Strings *)

NL == "\n"

IsWs(c) == c \in {" ", NL}

Min(S) == CHOOSE x \in S : \A y \in S : x <= y

Max(S) == CHOOSE x \in S : \A y \in S : x >= y

\* String.prototype.trim
trim(s) ==
  LET idx == {i \in 1..Len(s) : ~IsWs(s[i])}
  IN IF idx = {} THEN <<>> ELSE SubSeq(s, Min(idx), Max(idx))

\* String.prototype.includes
includes(s, sub) ==
  \E i \in 0..(Len(s) - Len(sub)) : SubSeq(s, i + 1, i + Len(sub)) = sub

\* all sequences over S of length at most n
SeqsUpTo(S, n) == UNION {[1..k -> S] : k \in 0..n}

RECURSIVE split(_, _)
\* String.prototype.split(sep)
split(s, sep) ==
  IF \E i \in 1..Len(s) : s[i] = sep
  THEN LET i == Min({j \in 1..Len(s) : s[j] = sep})
       IN <<SubSeq(s, 1, i - 1)>> \o split(SubSeq(s, i + 1, Len(s)), sep)
  ELSE <<s>>

----------------------------------------------------------------------------
(* Settings *)

\* the settings object a fresh installation reads; it has no apiKey
DEFAULT_SETTINGS ==
  [username |-> <<"user">>, email |-> <<>>,
   theme |-> [primaryColor |-> "orange", animations |-> TRUE],
   notifications |-> [taskReminders |-> TRUE, completionCelebration |-> TRUE],
   autoSave |-> TRUE, celebrationEffects |-> TRUE,
   language |-> "zh", soundEffects |-> TRUE]

\* object spread { ...d, ...s }
Spread(d, s) ==
  [k \in (DOMAIN d) \cup (DOMAIN s) |-> IF k \in DOMAIN s THEN s[k] ELSE d[k]]

\* the spread in the opposite order: { ...stored, ...DEFAULT_SETTINGS }
getSettingsDefaultsWin(store) ==
  IF ~store.settings.present THEN DEFAULT_SETTINGS
  ELSE Spread(store.settings.settings, DEFAULT_SETTINGS)

getSettings(store) ==
  IF ~store.settings.present THEN DEFAULT_SETTINGS
  ELSE Spread(DEFAULT_SETTINGS, store.settings.settings)

saveSettings(store, settings) ==
  [store EXCEPT !.settings = [present |-> TRUE, settings |-> settings]]

\* settings.apiKey || null, null being the empty sequence
getApiKey(store) ==
  LET settings == getSettings(store)
  IN IF "apiKey" \in DOMAIN settings THEN settings["apiKey"] ELSE <<>>

----------------------------------------------------------------------------
(* Decomposition client *)

\* lengths of the steps arrays the model replies with: the short ones, and
\* those around the limits of 6 and 10
JsonLens ==
  (0..MaxSteps) \cup {MinFallbackSteps - 1, MinFallbackSteps,
                      MaxFallbackLines, MaxFallbackLines + 1}

\* text of a JSON object whose steps field is an array of n well-formed steps
ObjArr(n) == "{steps:" \o ToString(n) \o "}"

\* text of a JSON object without a steps field
ObjNoSteps == "{x:1}"

\* text of a JSON object whose steps field is not an array
ObjStepsStr == "{steps:x}"

\* text of a JSON object whose steps array holds an element without content
ObjBadStep == "{steps:[null]}"

ObjTokens == {ObjArr(n) : n \in JsonLens} \cup {ObjNoSteps, ObjStepsStr, ObjBadStep}

\* the value of an object text: whether steps is a (truthy) array, and the array
ObjValue(tok) ==
  IF tok = ObjBadStep
  THEN [hasSteps |-> TRUE, steps |-> <<[isString |-> FALSE, content |-> <<>>]>>]
  ELSE IF \E n \in JsonLens : tok = ObjArr(n)
  THEN LET n == CHOOSE m \in JsonLens : tok = ObjArr(m)
       IN [hasSteps |-> TRUE,
           steps |-> [i \in 1..n |-> [isString |-> TRUE, content |-> <<"a">>]]]
  ELSE [hasSteps |-> FALSE, steps |-> <<>>]

\* digits, or digits "." digits
IsNumber(b) ==
  /\ b # <<>>
  /\ \A i \in 1..Len(b) : b[i] \in {"1", "."}
  /\ b[1] = "1" /\ b[Len(b)] = "1"
  /\ Cardinality({i \in 1..Len(b) : b[i] = "."}) <= 1

\* JSON.parse: ok is FALSE when it throws SyntaxError
JSONparse(s) ==
  LET b == trim(s)
  IN IF Len(b) = 1 /\ b[1] \in ObjTokens
     THEN [ok |-> TRUE, hasSteps |-> ObjValue(b[1]).hasSteps, steps |-> ObjValue(b[1]).steps]
     ELSE IF Len(b) >= 2 /\ b[1] = "{" /\ b[Len(b)] = "}"
             /\ \A i \in 2..(Len(b) - 1) : IsWs(b[i])
     THEN [ok |-> TRUE, hasSteps |-> FALSE, steps |-> <<>>]
     ELSE IF IsNumber(b)
     THEN [ok |-> TRUE, hasSteps |-> FALSE, steps |-> <<>>]
     ELSE [ok |-> FALSE, hasSteps |-> FALSE, steps |-> <<>>]

\* content.match(/\{[\s\S]*\}/): from the first "{" to the last "}"
jsonMatch(content) ==
  LET opens == {i \in 1..Len(content) : content[i] = "{" \/ content[i] \in ObjTokens}
      closes == {i \in 1..Len(content) : content[i] = "}" \/ content[i] \in ObjTokens}
  IN IF opens = {} \/ closes = {} THEN [found |-> FALSE, text |-> <<>>]
     ELSE LET i == Min(opens)
              j == Max(closes)
          IN IF i < j \/ (i = j /\ content[i] \in ObjTokens)
             THEN [found |-> TRUE, text |-> SubSeq(content, i, j)]
             ELSE [found |-> FALSE, text |-> <<>>]

\* line.replace(/^\d+\.?\s*/, '')
stripNumberPrefix(line) ==
  LET nd == Max({k \in 0..Len(line) : \A i \in 1..k : line[i] = "1"})
      dot == IF nd < Len(line) /\ line[nd + 1] = "." THEN nd + 1 ELSE nd
      ws == Max({k \in dot..Len(line) : \A i \in (dot + 1)..k : IsWs(line[i])})
  IN IF nd = 0 THEN line ELSE SubSeq(line, ws + 1, Len(line))

additionalSteps ==
  << <<"make a detailed plan and schedule">>,
     <<"collect and prepare the resources and tools">>,
     <<"start the first key step">>,
     <<"monitor progress and adjust">>,
     <<"polish and optimise the result">>,
     <<"summarise and record what was learned">> >>

\* the text parser without the padding with generic steps
fallbackTextParsingNoPad(content) ==
  LET lines == SelectSeq(split(content, NL), LAMBDA line : Len(trim(line)) > 0)
      n == IF Len(lines) < MaxFallbackLines THEN Len(lines) ELSE MaxFallbackLines
  IN [steps |-> [i \in 1..n |->
                   [isString |-> TRUE, content |-> stripNumberPrefix(trim(lines[i]))]]]

fallbackTextParsing(content) ==
  LET lines == SelectSeq(split(content, NL), LAMBDA line : Len(trim(line)) > 0)
      n == IF Len(lines) < MaxFallbackLines THEN Len(lines) ELSE MaxFallbackLines
      steps == [i \in 1..n |->
                  [isString |-> TRUE, content |-> stripNumberPrefix(trim(lines[i]))]]
      missing == MinFallbackSteps - Len(steps)
      pad == IF missing <= 0 THEN <<>>
             ELSE SubSeq(additionalSteps, 1,
                         IF missing < Len(additionalSteps) THEN missing
                         ELSE Len(additionalSteps))
  IN [steps |-> steps \o [i \in 1..Len(pad) |-> [isString |-> TRUE, content |-> pad[i]]]]

\* the parser without its second tier: the text parser as soon as the whole
\* content is not a JSON object with a steps array
parseAIResponseNoExtract(message) ==
  LET content == message.content
      parsed == JSONparse(content)
  IN IF parsed.ok /\ parsed.hasSteps
     THEN [ok |-> TRUE, steps |-> parsed.steps]
     ELSE IF ~message.isString THEN [ok |-> FALSE, steps |-> <<>>]
     ELSE [ok |-> TRUE, steps |-> fallbackTextParsing(content).steps]

\* message is choices[0].message: isString tells whether its content is a
\* string.  For a content that is not a string, message.content is the text
\* JSON.parse converts it to (the text itself for an array holding one text,
\* the digits for a number, the empty text for an empty array or a missing
\* message): the first tier runs on that text, and when it does not return,
\* the catch block itself throws, content.match not being a function
parseAIResponse(message) ==
  LET content == message.content
      parsed == JSONparse(content)
      m == jsonMatch(content)
      extracted == JSONparse(m.text)
  IN IF parsed.ok /\ parsed.hasSteps
     THEN [ok |-> TRUE, steps |-> parsed.steps]
     ELSE IF ~message.isString THEN [ok |-> FALSE, steps |-> <<>>]
     ELSE IF m.found /\ extracted.ok /\ extracted.hasSteps
     THEN [ok |-> TRUE, steps |-> extracted.steps]
     ELSE [ok |-> TRUE, steps |-> fallbackTextParsing(content).steps]

\* the full-width colon U+FF1A, one character
FullWidthColon == "U+FF1A"

\* the fixed texts of the source that the model keeps as one token each: the
\* number of characters of the text and the keyword tiers it has a keyword of
\* (understand [ has 'shen ru', the plans have 'zhi ding' and 'xiang xi',
\* the analysis has 'fen xi', the collections 'shou ji' with 'zheng li' or
\* 'zhun bei')
LiteralTexts ==
  ("clarify the goal"
     :> [length |-> 6, tiers |-> {}])
  @@ ("understand ["
     :> [length |-> 5, tiers |-> {"complex"}])
  @@ ("] and its expected result"
     :> [length |-> 11, tiers |-> {}])
  @@ ("analyse the complexity and the likely difficulties"
     :> [length |-> 20, tiers |-> {"medium"}])
  @@ ("collect and organise the resources, tools and information"
     :> [length |-> 20, tiers |-> {"quick"}])
  @@ ("make a detailed plan with schedule and milestones"
     :> [length |-> 22, tiers |-> {"complex", "medium"}])
  @@ ("start the first key step and find a rhythm"
     :> [length |-> 21, tiers |-> {}])
  @@ ("keep going, stay focused and efficient"
     :> [length |-> 21, tiers |-> {}])
  @@ ("check progress regularly and adjust"
     :> [length |-> 16, tiers |-> {}])
  @@ ("polish and optimise the result to the expected standard"
     :> [length |-> 20, tiers |-> {}])
  @@ ("summarise the whole process and record the lessons"
     :> [length |-> 18, tiers |-> {}])
  @@ ("make a detailed plan and schedule"
     :> [length |-> 14, tiers |-> {"complex", "medium"}])
  @@ ("collect and prepare the resources and tools"
     :> [length |-> 13, tiers |-> {"quick"}])
  @@ ("start the first key step"
     :> [length |-> 11, tiers |-> {}])
  @@ ("monitor progress and adjust"
     :> [length |-> 11, tiers |-> {}])
  @@ ("polish and optimise the result"
     :> [length |-> 9, tiers |-> {}])
  @@ ("summarise and record what was learned"
     :> [length |-> 9, tiers |-> {}])

\* the number of characters a token stands for: a fixed text has its length,
\* an object text is {"steps":[{"content":"a"},...]}, {"x":1}, {"steps":"x"}
\* or {"steps":[null]}, every other token is one character
TextLength(tok) ==
  IF tok \in DOMAIN LiteralTexts THEN LiteralTexts[tok].length
  ELSE IF tok \notin ObjTokens THEN 1
  ELSE IF tok = ObjNoSteps THEN 7
  ELSE IF tok = ObjStepsStr THEN 13
  ELSE IF tok = ObjBadStep THEN 16
  ELSE LET n == CHOOSE m \in JsonLens : tok = ObjArr(m)
       IN IF n = 0 THEN 12 ELSE 11 + 16 * n

RECURSIVE StringLength(_)
\* String.prototype.length
StringLength(s) ==
  IF s = <<>> THEN 0 ELSE TextLength(Head(s)) + StringLength(Tail(s))

\* String.prototype.toLowerCase: of the characters of the model only A has a
\* lower-case form
toLowerCase(s) == [i \in 1..Len(s) |-> IF s[i] = "A" THEN "a" ELSE s[i]]

\* String.prototype.substring(0, n); a fixed text is not cut
substring(s, n) ==
  SubSeq(s, 1, Max({k \in 0..Len(s) : StringLength(SubSeq(s, 1, k)) <= n}))

\* the keyword lists, each keyword two characters named by their reading:
\* zheng-li, shou-ji, zhun-bei, xuan-ze, que-ren
quickKeywords ==
  {<<"zheng", "li">>, <<"shou", "ji">>, <<"zhun", "bei">>, <<"xuan", "ze">>,
   <<"que", "ren">>}

\* fen-xi, yan-jiu, xue-xi, lian-xi, zhi-ding, gui-hua
mediumKeywords ==
  {<<"fen", "xi1">>, <<"yan", "jiu">>, <<"xue", "xi2">>, <<"lian", "xi2">>,
   <<"zhi", "ding">>, <<"gui", "hua">>}

\* kai-fa, she-ji, chuang-jian, bian-xie, shen-ru, xiang-xi
complexKeywords ==
  {<<"kai", "fa">>, <<"she", "ji4">>, <<"chuang", "jian">>, <<"bian", "xie">>,
   <<"shen", "ru">>, <<"xiang", "xi4">>}

\* keywords.some(keyword => lowerContent.includes(keyword)): every keyword
\* has two characters, so some keyword is included when two adjacent
\* characters are a keyword; a fixed text has the keywords of its tiers
someIncluded(lowerContent, keywords, tier) ==
  \/ \E i \in 1..Len(lowerContent) :
       /\ lowerContent[i] \in DOMAIN LiteralTexts
       /\ tier \in LiteralTexts[lowerContent[i]].tiers
  \/ \E i \in 1..(Len(lowerContent) - 1) :
       <<lowerContent[i], lowerContent[i + 1]>> \in keywords

\* the complex keywords looked for before the quick ones
estimateStepDurationComplexFirst(content) ==
  LET length == StringLength(content)
      lowerContent == toLowerCase(content)
      baseTime == IF length > 100 THEN 45
                  ELSE IF length > 60 THEN 30
                  ELSE IF length > 30 THEN 20
                  ELSE 15
  IN IF someIncluded(lowerContent, complexKeywords, "complex")
     THEN baseTime + 15
     ELSE IF someIncluded(lowerContent, quickKeywords, "quick")
     THEN Max({baseTime - 5, 10})
     ELSE IF someIncluded(lowerContent, mediumKeywords, "medium")
     THEN baseTime + 5
     ELSE baseTime

estimateStepDuration(content) ==
  LET length == StringLength(content)
      lowerContent == toLowerCase(content)
      baseTime == IF length > 100 THEN 45
                  ELSE IF length > 60 THEN 30
                  ELSE IF length > 30 THEN 20
                  ELSE 15
  IN IF someIncluded(lowerContent, quickKeywords, "quick")
     THEN Max({baseTime - 5, 10})
     ELSE IF someIncluded(lowerContent, complexKeywords, "complex")
     THEN baseTime + 15
     ELSE IF someIncluded(lowerContent, mediumKeywords, "medium")
     THEN baseTime + 5
     ELSE baseTime

\* step.content.split throws TypeError when content is not a string; the
\* title is the text before the first full-width colon, or, when that text is
\* empty, the first 20 characters and three dots
convertToTaskSteps(steps, t) ==
  IF \E i \in 1..Len(steps) : ~steps[i].isString
  THEN [ok |-> FALSE, steps |-> <<>>]
  ELSE [ok |-> TRUE,
        steps |-> [i \in 1..Len(steps) |->
                     [id |-> [at |-> t, index |-> i - 1],
                      title |-> LET head == split(steps[i].content, FullWidthColon)[1]
                                IN IF head # <<>> THEN head
                                   ELSE substring(steps[i].content, 20) \o <<".", ".", ".">>,
                      content |-> steps[i].content,
                      completed |-> FALSE,
                      completedAt |-> NoDate,
                      stepOrder |-> i,
                      estimatedMinutes |-> estimateStepDuration(steps[i].content)]]]

\* the generic plan with a first step that does not quote the goal
getDefaultStepsNoGoal(userInput, t) ==
  LET defaultSteps ==
        << <<"clarify the goal and its expected result">>,
           <<"analyse the complexity and the likely difficulties">>,
           <<"collect and organise the resources, tools and information">>,
           <<"make a detailed plan with schedule and milestones">>,
           <<"start the first key step and find a rhythm">>,
           <<"keep going, stay focused and efficient">>,
           <<"check progress regularly and adjust">>,
           <<"polish and optimise the result to the expected standard">>,
           <<"summarise the whole process and record the lessons">> >>
  IN convertToTaskSteps([i \in 1..Len(defaultSteps) |->
                           [isString |-> TRUE, content |-> defaultSteps[i]]], t)

getDefaultSteps(userInput, t) ==
  LET defaultSteps ==
        << <<"clarify the goal", FullWidthColon, "understand [">> \o userInput
             \o <<"] and its expected result">>,
           <<"analyse the complexity and the likely difficulties">>,
           <<"collect and organise the resources, tools and information">>,
           <<"make a detailed plan with schedule and milestones">>,
           <<"start the first key step and find a rhythm">>,
           <<"keep going, stay focused and efficient">>,
           <<"check progress regularly and adjust">>,
           <<"polish and optimise the result to the expected standard">>,
           <<"summarise the whole process and record the lessons">> >>
  IN convertToTaskSteps([i \in 1..Len(defaultSteps) |->
                           [isString |-> TRUE, content |-> defaultSteps[i]]], t)

\* Response.ok
ResponseOk(net) == net.status >= 200 /\ net.status <= 299

\* apiKey is what getApiKey read in the turn of the call, net what the request
\* settles with; ok is FALSE when it throws: no key (before any request),
\* fetch rejects, non-2xx status, or a body that is not JSON
callDoubaoAPI(apiKey, net) ==
  IF apiKey = <<>> THEN [ok |-> FALSE, hasChoices |-> FALSE, choices |-> <<>>]
  ELSE IF net.kind = "transport" THEN [ok |-> FALSE, hasChoices |-> FALSE, choices |-> <<>>]
  ELSE IF ~ResponseOk(net) THEN [ok |-> FALSE, hasChoices |-> FALSE, choices |-> <<>>]
  ELSE IF ~net.json THEN [ok |-> FALSE, hasChoices |-> FALSE, choices |-> <<>>]
  ELSE [ok |-> TRUE, hasChoices |-> net.hasChoices, choices |-> net.choices]

\* the body of the try block of decomposeTask; ok is FALSE when it throws.
\* apiKey is the key read in the turn of the call, t the clock of the turn
\* the steps are converted in: the turn of the call when no request is sent,
\* the turn the request settles in otherwise
decomposeTaskTry(userInput, apiKey, net, t) ==
  IF Len(userInput) = 0 \/ Len(trim(userInput)) = 0 THEN [ok |-> FALSE, steps |-> <<>>]
  ELSE LET response == callDoubaoAPI(apiKey, net)
       IN IF ~response.ok THEN [ok |-> FALSE, steps |-> <<>>]
          ELSE IF ~response.hasChoices \/ Len(response.choices) = 0
          THEN [ok |-> FALSE, steps |-> <<>>]
          ELSE LET aiResponse == parseAIResponse(response.choices[1])
               IN IF ~aiResponse.ok THEN [ok |-> FALSE, steps |-> <<>>]
                  ELSE convertToTaskSteps(aiResponse.steps, t)

\* a decomposeTask whose catch block rethrows
decomposeTaskRethrow(userInput, apiKey, net, t) ==
  decomposeTaskTry(userInput, apiKey, net, t)

decomposeTask(userInput, apiKey, net, t) ==
  LET try == decomposeTaskTry(userInput, apiKey, net, t)
  IN IF try.ok THEN try ELSE getDefaultSteps(userInput, t)

----------------------------------------------------------------------------
(* Connection test.  A response is described by its status and by what its *)
(* body is: a text that is not JSON, a JSON object (given by the fields    *)
(* the code reads), the JSON null, or a body whose reading fails.  Error   *)
(* messages of the runtime are token sequences, texts of a body are        *)
(* character sequences.                                                    *)

RECURSIVE DigitsOf(_)
\* the decimal digits of n, as in a template literal
DigitsOf(n) ==
  IF n < 10 THEN <<ToString(n)>> ELSE DigitsOf(n \div 10) \o <<ToString(n % 10)>>

\* the fixed messages of testConnection
ConnectionErrors ==
  [keyNotConfigured |-> <<"API key not configured">>,
   keyEmpty |-> <<"API key must not be empty">>,
   keyInvalid |-> <<"API key invalid or expired">>,
   keyForbidden |-> <<"API key lacks permission">>,
   rateLimited |-> <<"API rate limit exceeded, retry later">>,
   serverError |-> <<"internal server error, retry later">>,
   badFormat |-> <<"unexpected API response format">>,
   networkFailed |-> <<"network connection failed, check the network settings">>,
   unknownError |-> <<"unknown error">>]

NoError == [name |-> "", message |-> <<>>]

\* the message computed for a non-2xx response before the status is looked at
httpErrorMessage(resp) ==
  LET errorText == resp.body.text
      httpStatus == <<"H", "T", "T", "P", " ">> \o DigitsOf(resp.status)
  IN IF resp.body.kind = "object"
     THEN IF resp.body.errorMessage # <<>> THEN resp.body.errorMessage
          ELSE IF resp.body.message # <<>> THEN resp.body.message
          ELSE httpStatus
     ELSE IF errorText # <<>>
          THEN SubSeq(errorText, 1, Min({Len(errorText), MaxErrorTextLen}))
          ELSE httpStatus

\* testConnection awaits its request: with a key that is not blank it
\* returns in a later turn than the one it was called in
testConnectionAwaits(apiKey) ==
  apiKey # <<>> /\ trim(apiKey) # <<>>

\* the body of the try block of testConnection; ok is FALSE when it throws,
\* sent tells whether fetch was called.  apiKey is the key read in the turn
\* of the call, resp what the request settles with
testConnectionTry(apiKey, resp) ==
  LET fails(error) == [ok |-> TRUE, success |-> FALSE, error |-> error,
                       sent |-> TRUE, thrown |-> NoError]
      throws(e) == [ok |-> FALSE, success |-> FALSE, error |-> <<>>,
                    sent |-> TRUE, thrown |-> e]
  IN IF apiKey = <<>>
     THEN [ok |-> TRUE, success |-> FALSE, error |-> ConnectionErrors.keyNotConfigured,
           sent |-> FALSE, thrown |-> NoError]
     ELSE IF trim(apiKey) = <<>>
     THEN [ok |-> TRUE, success |-> FALSE, error |-> ConnectionErrors.keyEmpty,
           sent |-> FALSE, thrown |-> NoError]
     ELSE IF resp.kind = "transport" THEN throws(resp.error)
     ELSE IF ~ResponseOk(resp)
     THEN IF resp.body.kind = "unreadable" THEN throws(resp.error)
          ELSE IF resp.status = 401 THEN fails(ConnectionErrors.keyInvalid)
          ELSE IF resp.status = 403 THEN fails(ConnectionErrors.keyForbidden)
          ELSE IF resp.status = 429 THEN fails(ConnectionErrors.rateLimited)
          ELSE IF resp.status = 500 THEN fails(ConnectionErrors.serverError)
          ELSE fails(httpErrorMessage(resp))
     ELSE IF resp.body.kind = "unreadable" THEN throws(resp.error)
     ELSE IF resp.body.kind = "text"
     THEN throws([name |-> "SyntaxError", message |-> <<"Unexpected token">>])
     ELSE IF resp.body.kind = "null"
     THEN throws([name |-> "TypeError", message |-> <<"Cannot read properties of null">>])
     ELSE IF resp.body.choices # "nonEmpty" THEN fails(ConnectionErrors.badFormat)
     ELSE [ok |-> TRUE, success |-> TRUE, error |-> <<>>,
           sent |-> TRUE, thrown |-> NoError]

\* a testConnection whose catch block rethrows
testConnectionRethrow(apiKey, resp) ==
  testConnectionTry(apiKey, resp)

testConnection(apiKey, resp) ==
  LET try == testConnectionTry(apiKey, resp)
      error == try.thrown
  IN IF try.ok THEN try
     ELSE [try EXCEPT !.ok = TRUE,
                      !.error = IF error.name = "TypeError" /\ includes(error.message, <<"fetch">>)
                                THEN ConnectionErrors.networkFailed
                                ELSE IF error.message # <<>> THEN error.message
                                ELSE ConnectionErrors.unknownError]

----------------------------------------------------------------------------
(* Storage layer.  A store is the content of localStorage: for each of the *)
(* four keys, whether it is present and the document under it.  The        *)
(* lastUpdated stamp of a document is read by no operation and is left out.*)

NoSettings == [k \in {} |-> TRUE]

NoDailyStats == [d \in {} |-> 0]

EmptyStore ==
  [tasks |-> [present |-> FALSE, tasks |-> <<>>],
   settings |-> [present |-> FALSE, settings |-> NoSettings],
   statistics |-> [present |-> FALSE, dailyStats |-> NoDailyStats],
   logs |-> [present |-> FALSE, logs |-> <<>>]]

saveTasks(store, tasks) ==
  [store EXCEPT !.tasks = [present |-> TRUE, tasks |-> tasks]]

getTasks(store) ==
  IF ~store.tasks.present THEN <<>> ELSE store.tasks.tasks

getCompletionLogs(store) ==
  IF ~store.logs.present THEN <<>> ELSE store.logs.logs

getStatistics(store) ==
  IF ~store.statistics.present THEN [dailyStats |-> NoDailyStats]
  ELSE [dailyStats |-> store.statistics.dailyStats]

saveStatistics(store, stats) ==
  [store EXCEPT !.statistics = [present |-> TRUE, dailyStats |-> stats.dailyStats]]

\* date.toISOString().split('T')[0]: the UTC calendar day, as a day number
formatDate(date) == date \div MsPerDay

\* the day's counters raised, the duration not added
updateStatisticsNoTime(store, log) ==
  LET stats == getStatistics(store)
      dateKey == formatDate(log.completedAt)
      day == IF dateKey \in DOMAIN stats.dailyStats
             THEN stats.dailyStats[dateKey]
             ELSE [date |-> dateKey, tasksCompleted |-> 0, stepsCompleted |-> 0,
                   totalTimeSpent |-> 0, averageTaskDuration |-> 0]
      updated == [day EXCEPT !.tasksCompleted = @ + 1, !.stepsCompleted = @ + 1]
  IN saveStatistics(store,
       [dailyStats |-> [d \in (DOMAIN stats.dailyStats) \cup {dateKey} |->
                          IF d = dateKey THEN updated ELSE stats.dailyStats[d]]])

updateStatistics(store, log) ==
  LET stats == getStatistics(store)
      dateKey == formatDate(log.completedAt)
      day == IF dateKey \in DOMAIN stats.dailyStats
             THEN stats.dailyStats[dateKey]
             ELSE [date |-> dateKey, tasksCompleted |-> 0, stepsCompleted |-> 0,
                   totalTimeSpent |-> 0, averageTaskDuration |-> 0]
      updated == [day EXCEPT !.tasksCompleted = @ + 1,
                             !.stepsCompleted = @ + 1,
                             !.totalTimeSpent = @ + log.duration]
  IN saveStatistics(store,
       [dailyStats |-> [d \in (DOMAIN stats.dailyStats) \cup {dateKey} |->
                          IF d = dateKey THEN updated ELSE stats.dailyStats[d]]])

addCompletionLog(store, log) ==
  LET logs == Append(getCompletionLogs(store), log)
      store1 == [store EXCEPT !.logs = [present |-> TRUE, logs |-> logs]]
  IN updateStatistics(store1, log)

\* Math.round(x / d) for d > 0: the nearest integer, halves rounded up
MathRoundDiv(x, d) == (2 * x + d) \div (2 * d)

\* Math.floor in the place of Math.round
calculateTaskDurationFloor(task) ==
  IF task.completedAt = NoDate THEN 0
  ELSE (task.completedAt - task.createdAt) \div MsPerMinute

calculateTaskDuration(task) ==
  IF task.completedAt = NoDate THEN 0
  ELSE MathRoundDiv(task.completedAt - task.createdAt, MsPerMinute)

\* seq.find(x => x.id === id), as a 1-based index; 0 when there is none
findById(seq, id) ==
  IF \E i \in 1..Len(seq) : seq[i].id = id
  THEN Min({i \in 1..Len(seq) : seq[i].id = id})
  ELSE 0

\* steps.length, the filter forgotten
completedCountUnfiltered(steps) == Len(steps)

\* steps.filter(s => s.completed).length
completedCount(steps) == Cardinality({i \in 1..Len(steps) : steps[i].completed})

\* the stamp kept when the step is un-completed
markStepKeepStamp(step, completed, t) ==
  [step EXCEPT !.completed = completed,
               !.completedAt = IF completed THEN t ELSE @]

\* step.completed = completed; step.completedAt = completed ? new Date() : undefined
markStep(step, completed, t) ==
  [step EXCEPT !.completed = completed,
               !.completedAt = IF completed THEN t ELSE NoDate]

updateTaskStep(store, taskId, stepId, completed, t) ==
  LET tasks == getTasks(store)
      ti == findById(tasks, taskId)
  IN IF ti = 0 THEN store
     ELSE
       LET task == tasks[ti]
           si == findById(task.steps, stepId)
       IN IF si = 0 THEN store
          ELSE
            LET steps == [task.steps EXCEPT ![si] = markStep(@, completed, t)]
                counted == [task EXCEPT !.steps = steps,
                                        !.completedSteps = completedCount(steps)]
                allDone == counted.completedSteps = counted.totalSteps
                updated == IF allDone
                           THEN [counted EXCEPT !.status = "completed", !.completedAt = t]
                           ELSE IF counted.completedSteps > 0
                           THEN [counted EXCEPT !.status = "in_progress"]
                           ELSE counted
                logged == IF allDone
                          THEN addCompletionLog(store,
                                 [id |-> t,
                                  taskId |-> updated.id,
                                  taskTitle |-> updated.title,
                                  stepId |-> "task-complete",
                                  completedAt |-> t,
                                  duration |-> calculateTaskDuration(updated)])
                          ELSE store
            IN saveTasks(logged, [tasks EXCEPT ![ti] = updated])

\* removeItem for three of the keys, the statistics forgotten
clearAllDataKeepStatistics(store) ==
  [EmptyStore EXCEPT !.statistics = store.statistics]

\* removeItem for each of the four keys
clearAllData(store) == EmptyStore

\* the object exportData returns; written to a file and read back, a date is
\* the same millisecond value, as toISOString and new Date convert exactly
exportData(store, t) ==
  [tasks |-> getTasks(store),
   settings |-> getSettings(store),
   statistics |-> getStatistics(store),
   completionLogs |-> getCompletionLogs(store),
   exportDate |-> t]

\* an importData that writes all four keys, an absent field as an empty value
importDataAll(store, data) ==
  LET s1 == saveTasks(store, IF "tasks" \in DOMAIN data THEN data.tasks ELSE <<>>)
      s2 == saveSettings(s1, IF "settings" \in DOMAIN data THEN data.settings ELSE NoSettings)
      s3 == saveStatistics(s2, IF "statistics" \in DOMAIN data THEN data.statistics
                               ELSE [dailyStats |-> NoDailyStats])
  IN [s3 EXCEPT !.logs = [present |-> TRUE,
                          logs |-> IF "completionLogs" \in DOMAIN data
                                   THEN data.completionLogs ELSE <<>>]]

\* data is the parsed file: a record with some of the fields tasks, settings,
\* statistics, completionLogs; a field that is there holds an array or an
\* object, which is truthy also when empty
importData(store, data) ==
  LET s1 == IF "tasks" \in DOMAIN data THEN saveTasks(store, data.tasks) ELSE store
      s2 == IF "settings" \in DOMAIN data THEN saveSettings(s1, data.settings) ELSE s1
      s3 == IF "statistics" \in DOMAIN data THEN saveStatistics(s2, data.statistics) ELSE s2
  IN IF "completionLogs" \in DOMAIN data
     THEN [s3 EXCEPT !.logs = [present |-> TRUE, logs |-> data.completionLogs]]
     ELSE s3

----------------------------------------------------------------------------
(* Storage operations on a medium that may reject writes.  rejects is the  *)
(* set of keys whose setItem throws; a result has ok FALSE when the        *)
(* operation throws, error telling which error, and the store it leaves.   *)

StorageKeys == {"tasks", "settings", "statistics", "logs"}

\* localStorage.setItem(key, JSON.stringify(doc))
setItem(store, key, doc, rejects) ==
  IF key \in rejects THEN [ok |-> FALSE, error |-> "QuotaExceeded", store |-> store]
  ELSE [ok |-> TRUE, error |-> "", store |-> [store EXCEPT ![key] = doc]]

\* saveTasks: the catch block rethrows
saveTasksOn(store, tasks, rejects) ==
  LET w == setItem(store, "tasks", [present |-> TRUE, tasks |-> tasks], rejects)
  IN IF w.ok THEN w ELSE [w EXCEPT !.error = "SaveTasksFailed"]

\* saveSettings: the catch block rethrows
saveSettingsOn(store, settings, rejects) ==
  LET w == setItem(store, "settings", [present |-> TRUE, settings |-> settings], rejects)
  IN IF w.ok THEN w ELSE [w EXCEPT !.error = "SaveSettingsFailed"]

\* saveStatistics: the catch block logs and returns
saveStatisticsOn(store, stats, rejects) ==
  LET w == setItem(store, "statistics",
                   [present |-> TRUE, dailyStats |-> stats.dailyStats], rejects)
  IN [w EXCEPT !.ok = TRUE, !.error = ""]

\* addCompletionLog: the catch block logs and returns; the statistics are
\* written only after the log was
addCompletionLogOn(store, log, rejects) ==
  LET w == setItem(store, "logs",
                   [present |-> TRUE, logs |-> Append(getCompletionLogs(store), log)],
                   rejects)
  IN IF ~w.ok THEN [w EXCEPT !.ok = TRUE, !.error = ""]
     ELSE saveStatisticsOn(w.store, getStatistics(updateStatistics(w.store, log)), rejects)

addTask(store, task, rejects) ==
  saveTasksOn(store, Append(getTasks(store), task), rejects)

\* updateTask(taskId, updates) with updatedAt left as it was
updateTaskByIdKeepStamp(store, taskId, updates, t, rejects) ==
  LET tasks == getTasks(store)
      taskIndex == findById(tasks, taskId)
  IN IF taskIndex = 0 THEN [ok |-> FALSE, error |-> "NotFound", store |-> store]
     ELSE saveTasksOn(store, [tasks EXCEPT ![taskIndex] = Spread(@, updates)], rejects)

\* updateTask(taskId, updates)
updateTaskById(store, taskId, updates, t, rejects) ==
  LET tasks == getTasks(store)
      taskIndex == findById(tasks, taskId)
  IN IF taskIndex = 0 THEN [ok |-> FALSE, error |-> "NotFound", store |-> store]
     ELSE saveTasksOn(store,
            [tasks EXCEPT ![taskIndex] = Spread(Spread(@, updates), [updatedAt |-> t])],
            rejects)

\* updateTask(task)
updateTask(store, task, t, rejects) ==
  LET tasks == getTasks(store)
      taskIndex == findById(tasks, task.id)
  IN IF taskIndex = 0 THEN [ok |-> FALSE, error |-> "NotFound", store |-> store]
     ELSE saveTasksOn(store,
            [tasks EXCEPT ![taskIndex] = Spread(task, [updatedAt |-> t])],
            rejects)

deleteTask(store, taskId, rejects) ==
  saveTasksOn(store, SelectSeq(getTasks(store), LAMBDA task : task.id # taskId), rejects)

\* updateTaskStep: it writes what updateTaskStep writes on a medium that
\* accepts, the log first, through addCompletionLog, then the tasks, through
\* saveTasks; without the task or the step it returns before any write
\* an unknown task or step reported as an error, as updateTask does
updateTaskStepOnThrow(store, taskId, stepId, completed, t, rejects) ==
  LET tasks == getTasks(store)
      ti == findById(tasks, taskId)
      target == updateTaskStep(store, taskId, stepId, completed, t)
      logs == getCompletionLogs(target)
  IN IF ti = 0 \/ findById(tasks[ti].steps, stepId) = 0
     THEN [ok |-> FALSE, error |-> "NotFound", store |-> store]
     ELSE saveTasksOn(IF Len(logs) > Len(getCompletionLogs(store))
                      THEN addCompletionLogOn(store, logs[Len(logs)], rejects).store
                      ELSE store,
                      getTasks(target), rejects)

updateTaskStepOn(store, taskId, stepId, completed, t, rejects) ==
  LET tasks == getTasks(store)
      ti == findById(tasks, taskId)
      target == updateTaskStep(store, taskId, stepId, completed, t)
      logs == getCompletionLogs(target)
  IN IF ti = 0 \/ findById(tasks[ti].steps, stepId) = 0
     THEN [ok |-> TRUE, error |-> "", store |-> store]
     ELSE saveTasksOn(IF Len(logs) > Len(getCompletionLogs(store))
                      THEN addCompletionLogOn(store, logs[Len(logs)], rejects).store
                      ELSE store,
                      getTasks(target), rejects)

\* the task object toggleStepCompletion(stepId) builds on the execution page
\* showing task: the flag of the step inverted, the steps recounted, the
\* status made of the count, updatedAt and completedAt of the click
updatedTask(task, stepId, t) ==
  LET updatedSteps == [i \in 1..Len(task.steps) |->
                         IF task.steps[i].id = stepId
                         THEN markStep(task.steps[i], ~task.steps[i].completed, t)
                         ELSE task.steps[i]]
      isTaskCompleted == completedCount(updatedSteps) = Len(updatedSteps)
  IN Spread(task,
            [steps |-> updatedSteps,
             completedSteps |-> completedCount(updatedSteps),
             status |-> IF isTaskCompleted THEN "completed"
                        ELSE IF completedCount(updatedSteps) > 0 THEN "in_progress"
                        ELSE "pending",
             updatedAt |-> t,
             completedAt |-> IF isTaskCompleted THEN t ELSE NoDate])

\* toggleStepCompletion(stepId) on the page showing task, the task as it was
\* loaded from the storage, on a medium that rejects the writes of the keys
\* in rejects: the store after updateTask(updatedTask) and, when the task
\* became completed and had no completedAt, addCompletionLog; an error of
\* updateTask is caught and logged, and no log entry is added then
toggleStepCompletion(store, task, stepId, t, rejects) ==
  LET saved == updateTask(store, updatedTask(task, stepId, t), t, rejects)
  IN IF ~saved.ok THEN saved.store
     ELSE IF updatedTask(task, stepId, t).status = "completed" /\ task.completedAt = NoDate
     THEN addCompletionLogOn(saved.store,
                             [id |-> t,
                              taskId |-> task.id,
                              taskTitle |-> task.title,
                              stepId |-> "task-completion",
                              completedAt |-> t,
                              duration |-> task.estimatedDuration],
                             rejects).store
     ELSE saved.store

----------------------------------------------------------------------------
(* Two tabs on the same storage.  A call of a task-collection operation in *)
(* a tab is one step for each of its localStorage accesses, and steps of   *)
(* the other tab may come between them: the getItem of getTasks, then, in  *)
(* an updateTaskStep that completes its task, the four accesses of         *)
(* addCompletionLog (getItem and setItem of the logs, getItem and setItem  *)
(* of the statistics), then the setItem of saveTasks.  A call is the       *)
(* operation, the items it has read, the log entry it passes to            *)
(* addCompletionLog when it completes its task, and its outcome.           *)

\* the operation of a call carried out on a store
applyOp(store, op, t) ==
  CASE op.name = "addTask" -> addTask(store, op.task, {})
    [] op.name = "deleteTask" -> deleteTask(store, op.taskId, {})
    [] op.name = "updateTask" -> updateTaskById(store, op.taskId, [title |-> <<"h">>], t, {})
    [] op.name = "updateTaskStep" ->
         updateTaskStepOn(store, op.taskId, [at |-> op.taskId, index |-> 0], TRUE, t, {})

\* whether the operation reaches its saveTasks, given the tasks it read
opWrites(tasks, op) ==
  \/ op.name \in {"addTask", "deleteTask"}
  \/ /\ op.name = "updateTask"
     /\ findById(tasks, op.taskId) # 0
  \/ /\ op.name = "updateTaskStep"
     /\ findById(tasks, op.taskId) # 0
     /\ findById(tasks[findById(tasks, op.taskId)].steps, [at |-> op.taskId, index |-> 0]) # 0

\* one access of addCompletionLog(log) in a call, log being the one entry of
\* call.log: getCompletionLogs reads the logs, setItem stores them with the
\* log appended, getStatistics reads the statistics, saveStatistics stores
\* them with the day's bucket raised
tabAccess(store, call) ==
  LET log == call.log[1]
  IN CASE call.pc = "read" ->
            [store |-> store,
             call |-> [call EXCEPT !.pc = "logsRead", !.logs = store.logs]]
       [] call.pc = "logsRead" ->
            [store |-> [store EXCEPT !.logs =
                          [present |-> TRUE,
                           logs |-> Append(getCompletionLogs([store EXCEPT !.logs = call.logs]),
                                           log)]],
             call |-> [call EXCEPT !.pc = "logsWritten"]]
       [] call.pc = "logsWritten" ->
            [store |-> store,
             call |-> [call EXCEPT !.pc = "statisticsRead", !.statistics = store.statistics]]
       [] call.pc = "statisticsRead" ->
            [store |-> [store EXCEPT !.statistics =
                          updateStatistics([store EXCEPT !.statistics = call.statistics],
                                           log).statistics],
             call |-> [call EXCEPT !.pc = "statisticsWritten"]]

\* a last step that reads the tasks again instead of using what was read
tabWriteFresh(store, call, t) ==
  LET r == applyOp(store, call.op, t)
  IN [ok |-> r.ok, error |-> r.error,
      store |-> [store EXCEPT !.tasks = r.store.tasks]]

\* the last step of a call: the operation goes on with the tasks it read and,
\* unless it returns or throws before, saveTasks stores them
tabWrite(store, call, t) ==
  LET view == [store EXCEPT !.tasks = call.item]
      r == applyOp(view, call.op, t)
  IN [ok |-> r.ok, error |-> r.error,
      store |-> IF opWrites(getTasks(view), call.op)
                THEN [store EXCEPT !.tasks = r.store.tasks]
                ELSE store]

----------------------------------------------------------------------------
(* Goal-input page *)

\* the task object handleSubmit builds from the decomposed steps; description,
\* difficulty, category and estimatedDuration, which updateTaskStep neither
\* reads nor writes, are left out
RECURSIVE SumSeq(_)
\* numbers.reduce((total, n) => total + n, 0)
SumSeq(numbers) ==
  IF numbers = <<>> THEN 0 ELSE Head(numbers) + SumSeq(Tail(numbers))

newTask(title, steps, t) ==
  [id |-> t,
   title |-> title,
   steps |-> steps,
   createdAt |-> t,
   updatedAt |-> t,
   completedAt |-> NoDate,
   estimatedDuration |-> SumSeq([i \in 1..Len(steps) |-> steps[i].estimatedMinutes]),
   status |-> "pending",
   totalSteps |-> Len(steps),
   completedSteps |-> 0]

\* the rest of handleSubmit(taskInput), run in the turn the request settles
\* in: store and t are the storage and the clock of that turn, apiKey is the
\* key read in the turn of the click, net the outcome of the request
handleSubmit(store, taskInput, apiKey, net, t) ==
  LET steps == decomposeTask(trim(taskInput), apiKey, net, t)
  IN IF ~steps.ok THEN store
     ELSE saveTasks(store, Append(getTasks(store), newTask(trim(taskInput), steps.steps, t)))

----------------------------------------------------------------------------
(* Inputs *)

\* the goals decomposeTask is called with: empty, blank, and not blank
Goals == SeqsUpTo({" ", "g"}, 1)

\* the contents of a reply: the short texts of these characters and object
\* texts, and the long reply, of eleven numbered lines
Contents ==
  SeqsUpTo({NL, " ", "a", "1", ".", "{", "}"} \cup ObjTokens, MaxContentLen)
    \cup {[i \in 1..(4 * (MaxFallbackLines + 1)) |->
             IF i % 4 = 1 THEN "1" ELSE IF i % 4 = 2 THEN "."
             ELSE IF i % 4 = 3 THEN "a" ELSE NL]}

\* the messages of a reply: every content string, and contents that are not
\* strings, given by the text JSON.parse converts them to: an empty array or
\* no message, a number, an array holding a text that is not JSON, an array
\* holding the text of an object with a steps array or without one
Messages ==
  {[isString |-> FALSE, content |-> c] :
     c \in {<<>>, <<"1">>, <<"a">>, <<ObjArr(0)>>, <<ObjArr(1)>>, <<ObjNoSteps>>}}
    \cup {[isString |-> TRUE, content |-> c] : c \in Contents}

Statuses == {200, 401, 403, 404, 429, 500}

\* what the network does with one request: fetch rejects (transport), or a
\* response with a status, a body that is or is not JSON, and its choices
NetOutcomesOf(messages) ==
  {[kind |-> "transport", status |-> 0, json |-> FALSE, hasChoices |-> FALSE, choices |-> <<>>]}
    \cup {[kind |-> "http", status |-> st, json |-> FALSE, hasChoices |-> FALSE, choices |-> <<>>] :
            st \in Statuses}
    \cup {[kind |-> "http", status |-> 200, json |-> TRUE, hasChoices |-> FALSE, choices |-> <<>>],
          [kind |-> "http", status |-> 200, json |-> TRUE, hasChoices |-> TRUE, choices |-> <<>>]}
    \cup {[kind |-> "http", status |-> 200, json |-> TRUE, hasChoices |-> TRUE, choices |-> <<m>>] :
            m \in messages}

NetOutcomes == NetOutcomesOf(Messages)

\* the outcomes tried on the goal-input page: the model replies with a JSON
\* object of at most MaxSteps steps; every other outcome stores more steps
\* than the storage is let to hold
SubmitOutcomes ==
  {n \in NetOutcomesOf({[isString |-> TRUE, content |-> <<ObjArr(k)>>] : k \in 0..MaxSteps}) :
     n.choices # <<>>}

\* a text of n characters
Chars(n) == [i \in 1..n |-> "a"]

\* the bodies of a response; the texts a body or a message field carries are
\* none, a short one, and those around the limit of 100 characters
Bodies ==
  [kind : {"text"},
   text : {Chars(0), Chars(1), Chars(MaxErrorTextLen), Chars(MaxErrorTextLen + 1)},
   errorMessage : {<<>>}, message : {<<>>}, choices : {"absent"}]
    \cup [kind : {"object"}, text : {<<"{", "}">>},
          errorMessage : {Chars(0), Chars(1), Chars(MaxErrorTextLen + 1)},
          message : {Chars(0), Chars(1), Chars(MaxErrorTextLen + 1)},
          choices : {"absent", "notArray", "empty", "nonEmpty"}]
    \cup [kind : {"null"}, text : {<<"n", "u", "l", "l">>}, errorMessage : {<<>>},
          message : {<<>>}, choices : {"absent"}]
    \cup [kind : {"unreadable"}, text : {<<>>}, errorMessage : {<<>>},
          message : {<<>>}, choices : {"absent"}]

\* the errors fetch, or the reading of a body, rejects with
TransportErrors ==
  {[name |-> "TypeError", message |-> <<"Failed to ", "fetch">>],
   [name |-> "TypeError", message |-> <<"Load failed">>],
   [name |-> "Error", message |-> <<>>]}

\* what the network does with the request of testConnection
Responses ==
  [kind : {"transport"}, status : {0},
   body : {[kind |-> "unreadable", text |-> <<>>, errorMessage |-> <<>>,
            message |-> <<>>, choices |-> "absent"]},
   error : TransportErrors]
    \cup {r \in [kind : {"http"}, status : Statuses, body : Bodies,
                 error : TransportErrors \cup {NoError}] :
            (r.body.kind = "unreadable") <=> (r.error # NoError)}

NoTestResult == [ok |-> TRUE, success |-> FALSE, error |-> <<>>, sent |-> FALSE,
                 thrown |-> NoError]

\* the settings page as it is mounted on the fresh storage: the form holds
\* the settings loaded, saving is false, no connection test is running and
\* no reload of the application is scheduled
IdleConn == [form |-> DEFAULT_SETTINGS, saving |-> FALSE, pc |-> "idle", apiKey |-> <<>>,
             resp |-> CHOOSE r \in Responses : r.kind = "transport",
             result |-> NoTestResult, reload |-> FALSE]

\* a store with a credential and one submitted task of one step
SubmittedStore ==
  handleSubmit(saveSettings(EmptyStore, Spread(DEFAULT_SETTINGS, [apiKey |-> <<"k">>])),
               <<"g">>, <<"k">>,
               [kind |-> "http", status |-> 200, json |-> TRUE, hasChoices |-> TRUE,
                choices |-> <<[isString |-> TRUE, content |-> <<ObjArr(1)>>]>>],
               0)

\* the same store after the step of that task was completed
CompletedStore ==
  updateTaskStep(SubmittedStore, 0, [at |-> 0, index |-> 0], TRUE, TickMs)

\* the files imported: the exports of three stores, whole or with some of the
\* four fields removed, and a file with a partial settings object
ImportBlobs ==
  {[k \in K \cup {"exportDate"} |-> exportData(S, 0)[k]] :
     S \in {EmptyStore, SubmittedStore, CompletedStore}, K \in SUBSET {"tasks", "settings", "statistics", "completionLogs"}}
    \cup {[settings |-> [language |-> "en"]]}

\* the settings objects saveSettings is called with: empty, partial and whole
SettingsInputs ==
  {NoSettings, [language |-> "en"], [apiKey |-> <<"k">>, username |-> <<"u">>],
   Spread(DEFAULT_SETTINGS, [language |-> "en"])}

\* the logs addCompletionLog is called with: completed now or a day later,
\* after no time, one minute or two
LogInputs ==
  [id : {now}, taskId : {NoDate}, taskTitle : {<<"g">>}, stepId : {"task-complete"},
   completedAt : {now, now + MsPerDay}, duration : {0, 1, 2}]

\* the single step of the tasks added through addTask
OneStep(t) == convertToTaskSteps(<<[isString |-> TRUE, content |-> <<"a">>]>>, t).steps

\* the changes updateTask(taskId, updates) is called with
UpdateInputs == {[title |-> <<"h">>], [status |-> "in_progress", completedSteps |-> 0]}

\* the media: one that accepts every write, one that rejects every write
Media == {{}, StorageKeys}

\* the task objects updateTask(task) is called with: what the execution
\* page builds when a step is toggled, of the task it holds since its mount
\* and the clicks made on it, or of a stored task were the page mounted on
\* it in this turn
TaskObjectInputs ==
  LET toggled(task) == {updatedTask(task, task.steps[j].id, now) : j \in 1..Len(task.steps)}
  IN UNION {toggled(getTasks(ls)[i]) : i \in 1..Len(getTasks(ls))}
       \cup UNION {toggled(home.task[i]) : i \in 1..Len(home.task)}

Tabs == {"A", "B"}

\* the task a tab adds: the tabs create theirs at different moments
TabTask(tab) ==
  IF tab = "A" THEN newTask(<<"g">>, OneStep(TickMs), TickMs)
  ELSE newTask(<<"h">>, OneStep(2 * TickMs), 2 * TickMs)

\* the operations a tab calls: it adds its task, or deletes, updates or
\* completes the step of the task with id 0
TabOps(tab) ==
  {[name |-> "addTask", task |-> TabTask(tab), taskId |-> TabTask(tab).id]}
    \cup [name : {"deleteTask", "updateTask", "updateTaskStep"},
          task : {TabTask(tab)}, taskId : {0}]

IdleTabs ==
  [tab \in Tabs |->
     [pc |-> "done", op |-> [name |-> "addTask", task |-> TabTask(tab), taskId |-> TabTask(tab).id],
      item |-> EmptyStore.tasks, log |-> <<>>, logs |-> EmptyStore.logs,
      statistics |-> EmptyStore.statistics,
      ok |-> TRUE, order |-> 0]]

NoResult == [ok |-> FALSE, steps |-> <<>>]

IdleDec == [pc |-> "idle", goal |-> <<>>, apiKey |-> <<>>,
            net |-> CHOOSE n \in NetOutcomes : n.kind = "transport",
            result |-> NoResult]

\* the goal-input page as it is mounted: nothing submitted, no request
\* outstanding, navigate not called; old holds the requests of earlier mounts
\* of the page that are still outstanding.  task is the task state of the
\* execution page, <<>> for null: no execution page has loaded a task
IdleHome == [page |-> "home", pc |-> "idle", taskInput |-> <<>>, apiKey |-> <<>>,
             left |-> FALSE, error |-> FALSE, navigated |-> NoDate,
             old |-> <<>>, task |-> <<>>]

\* no step list converted
IdleConv == [content |-> <<>>, done |-> FALSE, steps |-> <<>>]

\* the ids to call updateTaskStep with: the stored ones and one that is not stored
TaskIdInputs == {getTasks(ls)[i].id : i \in 1..Len(getTasks(ls))} \cup {NoDate}

StepIdInputs ==
  UNION {{getTasks(ls)[i].steps[j].id : j \in 1..Len(getTasks(ls)[i].steps)} :
           i \in 1..Len(getTasks(ls))} \cup {[at |-> NoDate, index |-> 0]}

\* the number of steps of all stored tasks
StoredSteps(store) ==
  LET tasks == getTasks(store)
      RECURSIVE Sum(_)
      Sum(i) == IF i = 0 THEN 0 ELSE Len(tasks[i].steps) + Sum(i - 1)
  IN Sum(Len(tasks))

----------------------------------------------------------------------------
(* The storage layer driven by the goal-input page and updateTaskStep *)

Init ==
  /\ ls = EmptyStore
  /\ now = 0
  /\ dec = IdleDec
  /\ conn = IdleConn
  /\ tabs = IdleTabs
  /\ home = IdleHome
  /\ conv = IdleConv

\* time passes
Tick ==
  /\ now < MaxTicks * TickMs
  /\ now' = now + TickMs
  /\ UNCHANGED <<ls, dec, conn, tabs, home, conv>>

\* the settings page is mounted: the form of the new component holds the
\* settings as they are stored at that moment and its saving flag is false.
\* A connection test started by an earlier mount stays outstanding.
OpenSettings ==
  /\ conn' = [conn EXCEPT !.form = getSettings(ls), !.saving = FALSE]
  /\ UNCHANGED <<ls, now, dec, tabs, home, conv>>

\* updateSetting('apiKey', value): a key is typed in the key field of the form
UpdateSetting ==
  \E value \in {<<"k">>} :
    /\ conn' = [conn EXCEPT !.form = Spread(@, [apiKey |-> value])]
    /\ UNCHANGED <<ls, now, dec, tabs, home, conv>>

\* handleSaveSettings: the form is written as it is, nothing is read from the
\* storage; its button is disabled while saving is true, that is while a
\* connection test of this mount of the page is running
SaveSettings ==
  /\ ~conn.saving
  /\ ls' = saveSettings(ls, conn.form)
  /\ UNCHANGED <<now, dec, conn, tabs, home, conv>>

\* handleSubmit up to the await of decomposeTask: the settings are read and,
\* without a key, the error is set; otherwise the request is sent with the
\* key read and the form is disabled; the button is disabled while the goal
\* is blank.  The tasks stored and the requests outstanding are at most
\* MaxTasks together.
HomeSubmit ==
  \E taskInput \in {goal \in Goals : Len(trim(goal)) # 0} :
    /\ home.page = "home"
    /\ home.pc # "waiting"
    /\ Len(getTasks(ls)) + Len(home.old) < MaxTasks
    /\ home' = IF Len(trim(taskInput)) # 0 /\ getApiKey(ls) # <<>>
               THEN [home EXCEPT !.pc = "waiting", !.taskInput = taskInput,
                                 !.apiKey = getApiKey(ls),
                                 !.error = FALSE]
               ELSE [home EXCEPT !.pc = "idle", !.taskInput = taskInput, !.error = TRUE]
    /\ UNCHANGED <<ls, now, dec, conn, tabs, conv>>

\* the user opens another page; the page component is unmounted, its
\* outstanding handleSubmit is not cancelled
HomeLeave ==
  /\ home.page = "home"
  /\ home' = [home EXCEPT !.page = "settings", !.left = (home.pc = "waiting")]
  /\ UNCHANGED <<ls, now, dec, conn, tabs, conv>>

\* the rest of handleSubmit, run when a request settles, the one of the page
\* as it is mounted (n = 0) or one of an earlier mount (home.old[n]): the
\* steps are made of the answer and the clock of this turn, the tasks are
\* read, the task is appended and saved and navigate is called, which shows
\* the execution page whatever page is shown; the settings are not read
\* again.  Task ids are task-<Date.now()> and the task is appended whatever
\* is stored: two answers in the same millisecond make two tasks of one id.
\* The storage holds at most MaxSteps steps in all.
HomeRespond ==
  \E net \in SubmitOutcomes, n \in 0..Len(home.old) :
    /\ n = 0 => home.pc = "waiting"
    /\ LET req == IF n = 0
                  THEN [taskInput |-> home.taskInput, apiKey |-> home.apiKey]
                  ELSE home.old[n]
           submitted == handleSubmit(ls, req.taskInput, req.apiKey, net, now)
       IN /\ StoredSteps(submitted) <= MaxSteps
          /\ ls' = submitted
    /\ home' = IF n = 0
               THEN [home EXCEPT !.pc = "done",
                                 !.error = (ls' = ls),
                                 !.page = IF ls' # ls THEN "execution" ELSE @,
                                 !.navigated = IF ls' # ls THEN now ELSE @]
               ELSE [home EXCEPT !.old = SubSeq(@, 1, n - 1) \o SubSeq(@, n + 1, Len(@)),
                                 !.left = IF ls' # ls /\ home.page = "home"
                                          THEN home.pc = "waiting" ELSE @,
                                 !.page = IF ls' # ls THEN "execution" ELSE @,
                                 !.navigated = IF ls' # ls THEN now ELSE @]
    /\ UNCHANGED <<now, dec, conn, tabs, conv>>

\* the user opens the goal-input page again: a new mount of the component,
\* with the request of the mount before still outstanding if it was
HomeOpen ==
  /\ home.page # "home"
  /\ home' = [IdleHome EXCEPT
               !.old = IF home.pc = "waiting"
                       THEN Append(home.old, [taskInput |-> home.taskInput,
                                              apiKey |-> home.apiKey])
                       ELSE home.old]
  /\ UNCHANGED <<ls, now, dec, conn, tabs, conv>>

\* a call of updateTaskStep; one that finds no task or no step, or writes
\* back what was stored, is a stuttering step
UpdateTaskStep ==
  \E taskId \in TaskIdInputs, stepId \in StepIdInputs, completed \in BOOLEAN :
    /\ LET updated == updateTaskStep(ls, taskId, stepId, completed, now)
       IN /\ updated # ls
          /\ Len(getCompletionLogs(updated)) <= MaxLogs
          /\ ls' = updated
    /\ UNCHANGED <<now, dec, conn, tabs, home, conv>>

Next ==
  Tick \/ UpdateSetting \/ SaveSettings \/ HomeSubmit \/ HomeRespond \/ HomeOpen
    \/ UpdateTaskStep

Spec == Init /\ [][Next]_vars

----------------------------------------------------------------------------
(* decomposeTask called on the storage, its request settling in a later turn *)

InitDecompose ==
  /\ ls \in {EmptyStore, saveSettings(EmptyStore, Spread(DEFAULT_SETTINGS, [apiKey |-> <<"k">>]))}
  /\ now = 0
  /\ dec = IdleDec
  /\ conn = IdleConn
  /\ tabs = IdleTabs
  /\ home = IdleHome
  /\ conv = IdleConv

\* decomposeTask(userInput) up to the await of its request: the key is read;
\* with a blank goal or without a key the error is thrown and caught in this
\* turn and the default steps are made with the clock of this turn
DecomposeTask ==
  \E userInput \in Goals :
    /\ dec.pc = "idle"
    /\ dec' = IF Len(trim(userInput)) # 0 /\ getApiKey(ls) # <<>>
              THEN [dec EXCEPT !.pc = "waiting", !.goal = userInput,
                               !.apiKey = getApiKey(ls)]
              ELSE [dec EXCEPT !.pc = "done", !.goal = userInput,
                               !.apiKey = getApiKey(ls),
                               !.result = decomposeTask(userInput, getApiKey(ls), dec.net, now)]
    /\ UNCHANGED <<ls, now, conn, tabs, home, conv>>

\* the rest of decomposeTask, run when the request settles: the steps are
\* made of the answer, or of the default plan, with the clock of this turn;
\* the storage is not read
DecomposeTaskRespond ==
  \E net \in NetOutcomes :
    /\ dec.pc = "waiting"
    /\ dec' = [dec EXCEPT !.pc = "done", !.net = net,
                          !.result = decomposeTask(dec.goal, dec.apiKey, net, now)]
    /\ UNCHANGED <<ls, now, conn, tabs, home, conv>>

\* handleClearAllData: the four keys are removed and the reload of the
\* application is scheduled
ClearAllData ==
  /\ ls' = clearAllData(ls)
  /\ conn' = [conn EXCEPT !.reload = TRUE]
  /\ UNCHANGED <<now, dec, tabs, home, conv>>

\* window.location.reload(), a second after the data were cleared or
\* imported: the application starts again on the page that is shown.  What
\* the pages held and what they were waiting for is gone (requests
\* outstanding, their continuations, the reloads scheduled); the settings
\* page loads its form from the storage.
Reload ==
  /\ conn.reload
  /\ conn' = [IdleConn EXCEPT !.form = getSettings(ls), !.resp = conn.resp]
  /\ dec' = IdleDec
  /\ home' = [IdleHome EXCEPT !.page = home.page]
  /\ UNCHANGED <<ls, now, tabs, conv>>

NextDecompose ==
  Tick \/ ClearAllData \/ Reload \/ DecomposeTask \/ DecomposeTaskRespond

SpecDecompose == InitDecompose /\ [][NextDecompose]_vars

----------------------------------------------------------------------------
(* The connection test of the settings page, on a form with a key typed *)

InitTest ==
  /\ ls = EmptyStore
  /\ now = 0
  /\ dec = IdleDec
  /\ conn \in {[IdleConn EXCEPT !.form = Spread(getSettings(ls), [apiKey |-> key]),
                                !.resp = resp] : key \in {<<>>, <<" ">>, <<"k">>}, resp \in Responses}
  /\ tabs = IdleTabs
  /\ home = IdleHome
  /\ conv = IdleConv

\* the click handler of the test button up to its await of the import of
\* the service module: the button is disabled while saving is true and
\* without a key in the form; saving is set and the form is saved.  The
\* test followed is the one started last: a test of an earlier mount of the
\* page that is still outstanding writes nothing and shows its result
\* nowhere.
SaveAndTest ==
  /\ ~conn.saving
  /\ "apiKey" \in DOMAIN conn.form
  /\ conn.form.apiKey # <<>>
  /\ ls' = saveSettings(ls, conn.form)
  /\ conn' = [conn EXCEPT !.pc = "saved", !.saving = TRUE, !.apiKey = <<>>,
                          !.result = NoTestResult]
  /\ UNCHANGED <<now, dec, tabs, home, conv>>

\* the click handler goes on in a later turn, when the module is there:
\* testConnection reads the key as it is stored in that turn and, unless the
\* key is missing or blank, sends the request; otherwise it returns its
\* result and saving is reset
TestConnection ==
  /\ conn.pc = "saved"
  /\ LET apiKey == getApiKey(ls)
     IN conn' = IF testConnectionAwaits(apiKey)
                THEN [conn EXCEPT !.pc = "testing", !.apiKey = apiKey]
                ELSE [conn EXCEPT !.pc = "done", !.saving = FALSE, !.apiKey = apiKey,
                                  !.result = testConnection(apiKey, conn.resp)]
  /\ UNCHANGED <<ls, now, dec, tabs, home, conv>>

\* the rest of testConnection, run when the request settles: the result is
\* made of the response and saving is reset; the storage is neither read
\* nor written
TestConnectionRespond ==
  /\ conn.pc = "testing"
  /\ conn' = [conn EXCEPT !.pc = "done", !.saving = FALSE,
                          !.result = testConnection(conn.apiKey, conn.resp)]
  /\ UNCHANGED <<ls, now, dec, tabs, home, conv>>

NextTest ==
  OpenSettings \/ ClearAllData \/ Reload \/ SaveAndTest \/ TestConnection
    \/ TestConnectionRespond

SpecTest == InitTest /\ [][NextTest]_vars

----------------------------------------------------------------------------
(* The settings page: save, import and clear *)

\* handleImportData, when the file has been read: the file is imported into
\* the storage and the reload of the application is scheduled
ImportData ==
  \E data \in ImportBlobs :
    /\ ls' = importData(ls, data)
    /\ conn' = [conn EXCEPT !.reload = TRUE]
    /\ UNCHANGED <<now, dec, tabs, home, conv>>

NextData ==
  OpenSettings \/ UpdateSetting \/ SaveSettings \/ ImportData \/ ClearAllData \/ Reload

SpecData == Init /\ [][NextData]_vars

----------------------------------------------------------------------------
(* The task collection driven through addTask, updateTask and the clicks *)
(* of the execution page                                                  *)

AddTask ==
  \E rejects \in Media :
    /\ Len(getTasks(ls)) < MaxTasks
    /\ \A i \in 1..Len(getTasks(ls)) : getTasks(ls)[i].id # now
    /\ ls' = addTask(ls, newTask(<<"g">>, OneStep(now), now), rejects).store
    /\ UNCHANGED <<now, dec, conn, tabs, home, conv>>

\* updateTask(taskId, updates) renaming a task; the other changes of
\* UpdateInputs are applied to every state reached in the formulas on
\* updateTask
UpdateTaskById ==
  \E taskId \in TaskIdInputs, updates \in {[title |-> <<"h">>]}, rejects \in Media :
    /\ ls' = updateTaskById(ls, taskId, updates, now, rejects).store
    /\ UNCHANGED <<now, dec, conn, tabs, home, conv>>

\* the execution page is opened on a task id: its effect loads the task
\* from the storage into the task state, the first stored with the id;
\* without one it navigates to the goal-input page
OpenTaskExecution ==
  \E taskId \in TaskIdInputs :
    /\ home' = IF findById(getTasks(ls), taskId) # 0
               THEN [home EXCEPT !.page = "execution",
                                 !.task = <<getTasks(ls)[findById(getTasks(ls), taskId)]>>]
               ELSE [home EXCEPT !.page = "home", !.task = <<>>]
    /\ UNCHANGED <<ls, now, dec, conn, tabs, conv>>

\* a click on a step on the execution page: the whole of
\* toggleStepCompletion on the task the page holds, which is the task as it
\* was loaded at the mount and changed by the clicks since, whatever has
\* been stored meanwhile: setTask(updatedTask), whether the writes succeed
\* or not, updateTask(updatedTask) and the addCompletionLog that follows it
\* when the task became completed.  The storage holds at most MaxToggleLogs
\* log entries.
ToggleStepCompletion ==
  \E rejects \in Media, i \in 1..Len(home.task) :
    \E j \in 1..Len(home.task[i].steps) :
      /\ ls' = toggleStepCompletion(ls, home.task[i], home.task[i].steps[j].id,
                                    now, rejects)
      /\ Len(getCompletionLogs(ls')) <= MaxToggleLogs
      /\ home' = [home EXCEPT !.task = <<updatedTask(home.task[i], home.task[i].steps[j].id, now)>>]
      /\ UNCHANGED <<now, dec, conn, tabs, conv>>

NextTasks ==
  Tick \/ AddTask \/ UpdateTaskById \/ OpenTaskExecution \/ ToggleStepCompletion

SpecTasks == Init /\ [][NextTasks]_vars

----------------------------------------------------------------------------
(* Two tabs, each with one call of a task-collection operation *)

InitTabs ==
  /\ ls \in {EmptyStore, SubmittedStore, CompletedStore}
  /\ now = 2 * TickMs
  /\ dec = IdleDec
  /\ conn = IdleConn
  /\ tabs \in [Tabs -> UNION {[pc : {"start"}, op : TabOps(tab), item : {EmptyStore.tasks},
                                log : {<<>>}, logs : {EmptyStore.logs},
                                statistics : {EmptyStore.statistics},
                                ok : {TRUE}, order : {0}] : tab \in Tabs}]
  /\ \A tab \in Tabs : tabs[tab].op \in TabOps(tab)
  /\ home = IdleHome
  /\ conv = IdleConv

\* getTasks (localStorage.getItem) and what the operation makes of the tasks
\* before its next access: the log entry of an updateTaskStep that completes
\* its task
TabRead ==
  \E tab \in Tabs :
    /\ tabs[tab].pc = "start"
    /\ tabs' = [tabs EXCEPT
                  ![tab].pc = "read",
                  ![tab].item = ls.tasks,
                  ![tab].log = getCompletionLogs(
                                 applyOp([EmptyStore EXCEPT !.tasks = ls.tasks],
                                         tabs[tab].op, now).store)]
    /\ UNCHANGED <<ls, now, dec, conn, home, conv>>

\* addCompletionLog in an updateTaskStep that completes its task: one of
\* its four localStorage accesses
TabLog ==
  \E tab \in Tabs :
    /\ tabs[tab].pc \in {"read", "logsRead", "logsWritten", "statisticsRead"}
    /\ tabs[tab].log # <<>>
    /\ ls' = tabAccess(ls, tabs[tab]).store
    /\ tabs' = [tabs EXCEPT ![tab] = tabAccess(ls, tabs[tab]).call]
    /\ UNCHANGED <<now, dec, conn, home, conv>>

\* the end of the operation: saveTasks (localStorage.setItem), or the return
\* or throw of an operation that found no task
TabWrite ==
  \E tab \in Tabs :
    /\ \/ tabs[tab].pc = "read" /\ tabs[tab].log = <<>>
       \/ tabs[tab].pc = "statisticsWritten"
    /\ ls' = tabWrite(ls, tabs[tab], now).store
    /\ tabs' = [tabs EXCEPT ![tab].pc = "done",
                            ![tab].ok = tabWrite(ls, tabs[tab], now).ok,
                            ![tab].order = 1 + Cardinality({o \in Tabs : tabs[o].pc = "done"})]
    /\ UNCHANGED <<now, dec, conn, home, conv>>

NextTabs == TabRead \/ TabLog \/ TabWrite

SpecTabs == InitTabs /\ [][NextTabs]_vars

----------------------------------------------------------------------------
(* Properties of the stored tasks *)

StoredTasks == {getTasks(ls)[i] : i \in 1..Len(getTasks(ls))}

NumCompleted(task) == Cardinality({j \in 1..Len(task.steps) : task.steps[j].completed})

LogsOf(store, taskId) ==
  {k \in 1..Len(getCompletionLogs(store)) : getCompletionLogs(store)[k].taskId = taskId}

\* the stored task with this id, in a store where the id is stored
TaskById(store, taskId) ==
  getTasks(store)[findById(getTasks(store), taskId)]

\* C1: every stored task has status completed if and only if its
\* completedSteps equals its totalSteps.
C1_CompletedIffAllStepsCounted ==
  \A task \in StoredTasks :
    (task.status = "completed") <=> (task.completedSteps = task.totalSteps)

\* C2: every stored task has completedSteps equal to the number of its steps
\* whose completed flag is true, and totalSteps equal to the number of its steps.
C2_StepCountersMatchSteps ==
  \A task \in StoredTasks :
    /\ task.completedSteps = NumCompleted(task)
    /\ task.totalSteps = Len(task.steps)

\* a two-step task that was completed and then had one step un-completed
C2_Witness ==
  \E task \in StoredTasks :
    /\ Len(task.steps) = 2
    /\ task.completedAt # NoDate
    /\ NumCompleted(task) = 1
    /\ task.completedSteps = 1

\* C3: for every stored task and step, updateTaskStep(taskId, stepId, true)
\* called twice in a row leaves the same completedSteps, the same status and
\* the same number of completion-log entries as calling it once.
C3_RepeatedCompletionIdempotent ==
  \A task \in StoredTasks :
    \A j \in 1..Len(task.steps) :
      LET once == updateTaskStep(ls, task.id, task.steps[j].id, TRUE, now)
          twice == updateTaskStep(once, task.id, task.steps[j].id, TRUE, now)
      IN /\ TaskById(twice, task.id).completedSteps = TaskById(once, task.id).completedSteps
         /\ TaskById(twice, task.id).status = TaskById(once, task.id).status
         /\ Len(getCompletionLogs(twice)) = Len(getCompletionLogs(once))

\* C4: the completion-log collection never holds more than one entry for a
\* task id.
C4_AtMostOneLogPerTask ==
  \A task \in StoredTasks : Cardinality(LogsOf(ls, task.id)) <= 1

C6_StatusRecomputedFromSteps ==
  \A task \in StoredTasks :
    \A j \in 1..Len(task.steps) :
      \A completed \in BOOLEAN :
        LET after == updateTaskStep(ls, task.id, task.steps[j].id, completed, now)
            steps == TaskById(after, task.id).steps
        IN TaskById(after, task.id).status =
             IF \A i \in 1..Len(steps) : steps[i].completed THEN "completed"
             ELSE IF \E i \in 1..Len(steps) : steps[i].completed THEN "in_progress"
             ELSE "pending"

\* C7: every step of every stored task has its completion timestamp set if and
\* only if its completed flag is true.
C7_StampIffCompleted ==
  \A task \in StoredTasks :
    \A j \in 1..Len(task.steps) :
      (task.steps[j].completedAt # NoDate) <=> task.steps[j].completed

\* a task that was completed and then had a step un-completed: one step
\* completed with its stamp, one not completed without a stamp
C7_Witness ==
  \E task \in StoredTasks :
    /\ task.completedAt # NoDate
    /\ \E j \in 1..Len(task.steps) :
         task.steps[j].completed /\ task.steps[j].completedAt # NoDate
    /\ \E j \in 1..Len(task.steps) :
         ~task.steps[j].completed /\ task.steps[j].completedAt = NoDate

----------------------------------------------------------------------------
(* Properties of decomposeTask *)

\* the request reached the model and its reply carries a content string
ApiSucceeded ==
  /\ callDoubaoAPI(dec.apiKey, dec.net).ok
  /\ callDoubaoAPI(dec.apiKey, dec.net).hasChoices
  /\ Len(dec.net.choices) > 0
  /\ dec.net.choices[1].isString

\* the content, whole or its brace-delimited part, is a JSON object with a
\* steps array
HasJsonSteps(content) ==
  \/ JSONparse(content).ok /\ JSONparse(content).hasSteps
  \/ /\ jsonMatch(content).found
     /\ JSONparse(jsonMatch(content).text).ok
     /\ JSONparse(jsonMatch(content).text).hasSteps

\* C8: for every goal that is non-empty after trimming, decomposeTask returns
\* a step list and propagates no error, whatever the outcome of the request.
C8_NeverFailsOnGoal ==
  (dec.pc = "done" /\ Len(trim(dec.goal)) > 0) => dec.result.ok

\* a goal decomposed while the request failed in transport
C8_Witness ==
  /\ dec.pc = "done"
  /\ Len(trim(dec.goal)) > 0
  /\ dec.apiKey # <<>>
  /\ dec.net.kind = "transport"
  /\ dec.result.ok
  /\ Len(dec.result.steps) > 0

\* C9: decomposeTask called with a goal that is empty or only whitespace fails
\* with an error delivered to the caller and returns no step list.
C9_EmptyGoalRejected ==
  (dec.pc = "done" /\ Len(trim(dec.goal)) = 0) => ~dec.result.ok

\* C10: for every non-empty goal, when the request succeeds and its content
\* parses as a JSON object with a steps array, decomposeTask returns between 6
\* and 10 steps.
C10_ParsedStepCountInRange ==
  (/\ dec.pc = "done"
   /\ Len(trim(dec.goal)) > 0
   /\ ApiSucceeded
   /\ HasJsonSteps(dec.net.choices[1].content))
    => /\ dec.result.ok
       /\ Len(dec.result.steps) >= 6
       /\ Len(dec.result.steps) <= 10

\* C11: for every non-empty goal, when the request itself fails (no stored
\* credential, transport error, non-2xx status or unreadable body),
\* decomposeTask returns exactly 9 steps, none completed, with order values
\* 1..9 in array order, the first step's content containing the goal verbatim.
C11_FallbackPlanOnRequestFailure ==
  (/\ dec.pc = "done"
   /\ Len(trim(dec.goal)) > 0
   /\ ~callDoubaoAPI(dec.apiKey, dec.net).ok)
    => /\ dec.result.ok
       /\ Len(dec.result.steps) = 9
       /\ \A i \in 1..Len(dec.result.steps) :
            /\ ~dec.result.steps[i].completed
            /\ dec.result.steps[i].stepOrder = i
       /\ includes(dec.result.steps[1].content, dec.goal)

\* a goal decomposed with a stored credential while the server answered 500
C11_Witness ==
  /\ dec.pc = "done"
  /\ Len(trim(dec.goal)) > 0
  /\ dec.apiKey # <<>>
  /\ dec.net.kind = "http"
  /\ dec.net.status = 500
  /\ Len(dec.result.steps) = 9
  /\ includes(dec.result.steps[1].content, dec.goal)

\* C12: for every non-empty goal, when the request succeeds and its content
\* holds no JSON object with a steps array, so that parsing falls through to
\* the text parser, decomposeTask returns at least 6 and at most 10 steps,
\* also for a content without a usable line.
C12_TextFallbackStepCountInRange ==
  (/\ dec.pc = "done"
   /\ Len(trim(dec.goal)) > 0
   /\ ApiSucceeded
   /\ ~HasJsonSteps(dec.net.choices[1].content))
    => /\ dec.result.ok
       /\ Len(dec.result.steps) >= 6
       /\ Len(dec.result.steps) <= 10

\* a reply whose content has no usable line, decomposed into the six generic
\* steps of the text parser
C12_Witness ==
  /\ dec.pc = "done"
  /\ Len(trim(dec.goal)) > 0
  /\ ApiSucceeded
  /\ Len(trim(dec.net.choices[1].content)) = 0
  /\ Len(dec.result.steps) = 6
  /\ dec.result.steps[1].content = additionalSteps[1]

----------------------------------------------------------------------------
(* Properties of testConnection *)

\* C13: for a non-2xx response testConnection reports success = false with
\* the message its status alone calls for: invalid or expired credential for
\* 401, insufficient permission for 403, rate limited for 429, server error
\* for 500, whatever the body that was read; for any other status the message
\* has at most 100 characters.
C13_FailureClassifiedByStatus ==
  (/\ conn.pc = "done"
   /\ testConnectionAwaits(conn.apiKey)
   /\ conn.resp.kind = "http"
   /\ ~ResponseOk(conn.resp)
   /\ conn.resp.body.kind # "unreadable")
    => /\ conn.result.ok
       /\ ~conn.result.success
       /\ (conn.resp.status = 401 => conn.result.error = ConnectionErrors.keyInvalid)
       /\ (conn.resp.status = 403 => conn.result.error = ConnectionErrors.keyForbidden)
       /\ (conn.resp.status = 429 => conn.result.error = ConnectionErrors.rateLimited)
       /\ (conn.resp.status = 500 => conn.result.error = ConnectionErrors.serverError)
       /\ (conn.resp.status \notin {401, 403, 429, 500}
             => Len(conn.result.error) <= MaxErrorTextLen)

\* C14: testConnection never throws; it sends no request without a credential
\* that is not blank; it reports success exactly for a 2xx response whose body
\* is an object with a non-empty choices array, and every other outcome as
\* success = false with a non-empty error.  The credential is the one stored
\* in the turn testConnection is called in: missing (the storage was cleared
\* after the page saved its form), blank, or set.  Whatever the network
\* would have answered, a call without a credential, or with a blank one,
\* returns its failure without a request.
C14_TestConnectionSurfacesFailures ==
  /\ conn.pc = "done" =>
       /\ conn.result.ok
       /\ conn.result.sent <=> testConnectionAwaits(conn.apiKey)
       /\ conn.result.success <=>
            /\ testConnectionAwaits(conn.apiKey)
            /\ conn.resp.kind = "http"
            /\ ResponseOk(conn.resp)
            /\ conn.resp.body.kind = "object"
            /\ conn.resp.body.choices = "nonEmpty"
       /\ ~conn.result.success => conn.result.error # <<>>
  /\ conn.pc = "saved" =>
       \A apiKey \in {<<>>, getApiKey(ls)}, resp \in Responses :
         LET result == testConnection(apiKey, resp)
         IN /\ result.ok
            /\ result.sent <=> testConnectionAwaits(apiKey)
            /\ ~testConnectionAwaits(apiKey) => ~result.success /\ result.error # <<>>

\* the storage was cleared between the save of the form and the call: the
\* call found no credential, sent nothing and returned its failure
C14_Witness ==
  /\ conn.pc = "done"
  /\ conn.form.apiKey # <<>>
  /\ conn.apiKey = <<>>
  /\ conn.result.ok
  /\ ~conn.result.sent
  /\ ~conn.result.success
  /\ conn.result.error = ConnectionErrors.keyNotConfigured

----------------------------------------------------------------------------
(* Properties of settings, import and export *)

\* got is s merged over the defaults, key by key
MergedOverDefaults(got, s) ==
  /\ DOMAIN got = (DOMAIN DEFAULT_SETTINGS) \cup (DOMAIN s)
  /\ \A k \in DOMAIN s : got[k] = s[k]
  /\ \A k \in (DOMAIN DEFAULT_SETTINGS) \ (DOMAIN s) : got[k] = DEFAULT_SETTINGS[k]

\* C15: getSettings on a storage without settings returns the defaults; after
\* saveSettings(s) it returns s merged over the defaults per top-level key
\* (the keys of s with s's values, the other keys with the defaults); and the
\* operations other than saveSettings, importData with a settings field and
\* clearAllData leave what getSettings returns unchanged.
C15_SettingsMergedOverDefaults ==
  /\ getSettings(EmptyStore) = DEFAULT_SETTINGS
  /\ getSettings(clearAllData(ls)) = DEFAULT_SETTINGS
  /\ ~ls.settings.present => getSettings(ls) = DEFAULT_SETTINGS
  /\ ls.settings.present => MergedOverDefaults(getSettings(ls), ls.settings.settings)
  /\ \A s \in SettingsInputs :
       MergedOverDefaults(getSettings(saveSettings(ls, s)), s)
  /\ \A s \in SettingsInputs :
       /\ getSettings(saveTasks(saveSettings(ls, s), getTasks(CompletedStore)))
            = getSettings(saveSettings(ls, s))
       /\ getSettings(addCompletionLog(saveSettings(ls, s), getCompletionLogs(CompletedStore)[1]))
            = getSettings(saveSettings(ls, s))
  /\ \A data \in ImportBlobs :
       "settings" \notin DOMAIN data => getSettings(importData(ls, data)) = getSettings(ls)

\* a stored settings object with the language alone, read back with that
\* language and the default user name
C15_Witness ==
  /\ ls.settings.present
  /\ DOMAIN ls.settings.settings = {"language"}
  /\ getSettings(ls).language = "en"
  /\ getSettings(ls).language # DEFAULT_SETTINGS.language
  /\ getSettings(ls).username = DEFAULT_SETTINGS.username

\* C18: importData(data) overwrites exactly the storage keys whose field is in
\* data, with the value of the field, and leaves the other keys as they are;
\* and importing what exportData returned, into the same storage, an empty
\* storage or a different one, restores the exported tasks, settings,
\* statistics and completion logs.
C18_ImportOverwritesPresentKeys ==
  /\ \A data \in ImportBlobs :
       LET after == importData(ls, data)
       IN /\ IF "tasks" \in DOMAIN data
             THEN after.tasks.present /\ getTasks(after) = data.tasks
             ELSE after.tasks = ls.tasks
          /\ IF "settings" \in DOMAIN data
             THEN after.settings.present /\ after.settings.settings = data.settings
             ELSE after.settings = ls.settings
          /\ IF "statistics" \in DOMAIN data
             THEN after.statistics.present /\ getStatistics(after) = data.statistics
             ELSE after.statistics = ls.statistics
          /\ IF "completionLogs" \in DOMAIN data
             THEN after.logs.present /\ getCompletionLogs(after) = data.completionLogs
             ELSE after.logs = ls.logs
  /\ \A target \in {ls, EmptyStore, SubmittedStore, CompletedStore} :
       LET back == importData(target, exportData(ls, now))
       IN /\ getTasks(back) = getTasks(ls)
          /\ getSettings(back) = getSettings(ls)
          /\ getStatistics(back) = getStatistics(ls)
          /\ getCompletionLogs(back) = getCompletionLogs(ls)

\* a storage whose tasks and logs came from an imported file while its
\* settings, saved before on the settings page, were not in the file, and
\* whose statistics were never written
C18_Witness ==
  /\ getTasks(ls) = getTasks(CompletedStore)
  /\ getCompletionLogs(ls) = getCompletionLogs(CompletedStore)
  /\ ~ls.statistics.present
  /\ ls.settings.present
  /\ DOMAIN ls.settings.settings = {"language", "apiKey"} \cup DOMAIN DEFAULT_SETTINGS
  /\ getSettings(ls).language = "en"

----------------------------------------------------------------------------
(* Properties of the completion log and the statistics *)

\* the bucket of a day: the stored one, or the zeroed one when there is none
BucketOf(store, day) ==
  IF day \in DOMAIN getStatistics(store).dailyStats
  THEN getStatistics(store).dailyStats[day]
  ELSE [date |-> day, tasksCompleted |-> 0, stepsCompleted |-> 0,
        totalTimeSpent |-> 0, averageTaskDuration |-> 0]

RECURSIVE DurationsOn(_, _)
\* the sum of the durations of the logs completed on a day
DurationsOn(logs, day) ==
  IF logs = <<>> THEN 0
  ELSE (IF formatDate(Head(logs).completedAt) = day THEN Head(logs).duration ELSE 0)
         + DurationsOn(Tail(logs), day)

\* C16: addCompletionLog(log) appends the log and changes only the statistics
\* bucket of the calendar date of log.completedAt: the bucket, zeroed when it
\* was absent, has tasksCompleted and stepsCompleted raised by 1 and
\* totalTimeSpent raised by log.duration, every other date's bucket is as it
\* was; a second log of the same date raises the same bucket again, so that
\* each bucket counts the logs of its date and sums their durations.
C16_LogUpdatesItsDayBucket ==
  /\ \A log \in LogInputs :
       LET after == addCompletionLog(ls, log)
           day == formatDate(log.completedAt)
           before == BucketOf(ls, day)
           bucket == getStatistics(after).dailyStats[day]
       IN /\ getCompletionLogs(after) = Append(getCompletionLogs(ls), log)
          /\ after.tasks = ls.tasks /\ after.settings = ls.settings
          /\ DOMAIN getStatistics(after).dailyStats
               = (DOMAIN getStatistics(ls).dailyStats) \cup {day}
          /\ bucket.date = day
          /\ bucket.tasksCompleted = before.tasksCompleted + 1
          /\ bucket.stepsCompleted = before.stepsCompleted + 1
          /\ bucket.totalTimeSpent = before.totalTimeSpent + log.duration
          /\ \A d \in DOMAIN getStatistics(ls).dailyStats :
               d # day => getStatistics(after).dailyStats[d] = getStatistics(ls).dailyStats[d]
          /\ \A second \in LogInputs :
               formatDate(second.completedAt) = day =>
                 LET twice == getStatistics(addCompletionLog(after, second)).dailyStats[day]
                 IN /\ twice.tasksCompleted = before.tasksCompleted + 2
                    /\ twice.totalTimeSpent = before.totalTimeSpent + log.duration + second.duration
  /\ \A d \in DOMAIN getStatistics(ls).dailyStats :
       /\ getStatistics(ls).dailyStats[d].tasksCompleted
            = Cardinality({k \in 1..Len(getCompletionLogs(ls)) :
                             formatDate(getCompletionLogs(ls)[k].completedAt) = d})
       /\ getStatistics(ls).dailyStats[d].totalTimeSpent = DurationsOn(getCompletionLogs(ls), d)

\* two logs of one minute each on the same date, and that date's bucket with
\* two tasks and two minutes
C16_Witness ==
  /\ Len(getCompletionLogs(ls)) = 2
  /\ getCompletionLogs(ls)[1].duration = 1
  /\ getCompletionLogs(ls)[2].duration = 1
  /\ formatDate(getCompletionLogs(ls)[1].completedAt) = formatDate(getCompletionLogs(ls)[2].completedAt)
  /\ BucketOf(ls, formatDate(getCompletionLogs(ls)[1].completedAt)).tasksCompleted = 2
  /\ BucketOf(ls, formatDate(getCompletionLogs(ls)[1].completedAt)).totalTimeSpent = 2

----------------------------------------------------------------------------
(* Properties of updateTask and of rejected writes *)

\* after is tasks with the task at index i replaced by one that has the
\* fields of changes, updatedAt = t and the remaining fields of base
ReplacedAt(after, tasks, i, base, changes, t) ==
  /\ Len(after) = Len(tasks)
  /\ \A j \in 1..Len(tasks) : j # i => after[j] = tasks[j]
  /\ after[i].updatedAt = t
  /\ \A k \in (DOMAIN changes) \ {"updatedAt"} : after[i][k] = changes[k]
  /\ \A k \in (DOMAIN base) \ ((DOMAIN changes) \cup {"updatedAt"}) : after[i][k] = base[k]

\* C17: updateTask with an id that is not stored fails with a not-found error
\* and writes nothing; with a stored id it replaces exactly the task of that
\* id (by the stored task with the updates applied, or by the task passed),
\* sets its updatedAt to the current time, and leaves every other stored task
\* and the order of the collection as they were.
C17_UpdateTaskReplacesOneTask ==
  /\ \A taskId \in TaskIdInputs, updates \in UpdateInputs :
       LET r == updateTaskById(ls, taskId, updates, now, {})
           i == findById(getTasks(ls), taskId)
       IN IF i = 0
          THEN ~r.ok /\ r.error = "NotFound" /\ r.store = ls
          ELSE /\ r.ok
               /\ ReplacedAt(getTasks(r.store), getTasks(ls), i, getTasks(ls)[i], updates, now)
               /\ getTasks(r.store)[i].id = taskId
  /\ \A task \in TaskObjectInputs :
       LET r == updateTask(ls, task, now, {})
           i == findById(getTasks(ls), task.id)
       IN IF i = 0
          THEN ~r.ok /\ r.error = "NotFound" /\ r.store = ls
          ELSE /\ r.ok
               /\ ReplacedAt(getTasks(r.store), getTasks(ls), i, task, task, now)

\* two stored tasks, the first renamed by an update after its creation, the
\* second as it was created
C17_Witness ==
  /\ Len(getTasks(ls)) = 2
  /\ getTasks(ls)[1].title = <<"h">>
  /\ getTasks(ls)[1].updatedAt > getTasks(ls)[1].createdAt
  /\ getTasks(ls)[2].title = <<"g">>
  /\ getTasks(ls)[2].updatedAt = getTasks(ls)[2].createdAt

\* C19: on a medium that rejects the write, saveTasks, saveSettings, addTask,
\* updateTask, updateTaskStep and addCompletionLog (when its log write is
\* rejected, and when its statistics write is) each fail with an error
\* delivered to the caller.
C19_RejectedWriteSurfaces ==
  /\ ~saveTasksOn(ls, getTasks(ls), StorageKeys).ok
  /\ ~saveSettingsOn(ls, getSettings(ls), StorageKeys).ok
  /\ ~addTask(ls, newTask(<<"g">>, OneStep(now), now), StorageKeys).ok
  /\ \A task \in StoredTasks :
       /\ ~updateTask(ls, task, now, StorageKeys).ok
       /\ \A updates \in UpdateInputs : ~updateTaskById(ls, task.id, updates, now, StorageKeys).ok
       /\ \A j \in 1..Len(task.steps), completed \in BOOLEAN :
            ~updateTaskStepOn(ls, task.id, task.steps[j].id, completed, now, StorageKeys).ok
  /\ \A log \in LogInputs :
       /\ ~addCompletionLogOn(ls, log, {"logs"}).ok
       /\ ~addCompletionLogOn(ls, log, {"statistics"}).ok

----------------------------------------------------------------------------
(* Properties of two tabs sharing the storage *)

\* the call of the tab has returned after writing the tasks
HasWritten(tab) ==
  /\ tabs[tab].pc = "done"
  /\ opWrites(IF tabs[tab].item.present THEN tabs[tab].item.tasks ELSE <<>>, tabs[tab].op)

\* C20: the task-collection operations are read-modify-writes of the whole
\* collection without a lock: when calls of two tabs interleave, the later
\* write wins, the stored collection being what the last writer made of the
\* collection it had read, whatever the other tab wrote in between, and
\* addTask and deleteTask report no error.
C20_LaterWriteWins ==
  \A tab \in Tabs :
    /\ (/\ HasWritten(tab)
        /\ \A o \in Tabs \ {tab} : HasWritten(o) => tabs[o].order < tabs[tab].order) =>
         getTasks(ls) = getTasks(applyOp([ls EXCEPT !.tasks = tabs[tab].item],
                                         tabs[tab].op, now).store)
    /\ (tabs[tab].pc = "done" /\ tabs[tab].op.name \in {"addTask", "deleteTask"}) =>
         tabs[tab].ok

\* both tabs called addTask, both calls returned without an error, and only
\* one of the two tasks is stored
C20_Witness ==
  /\ \A tab \in Tabs :
       tabs[tab].pc = "done" /\ tabs[tab].op.name = "addTask" /\ tabs[tab].ok
  /\ tabs["A"].order > 0 /\ tabs["B"].order > 0
  /\ Cardinality({tab \in Tabs : findById(getTasks(ls), TabTask(tab).id) # 0}) = 1

----------------------------------------------------------------------------
(* The storage writes of one updateTaskStep call, one at a time *)

\* what the keys hold between two consecutive writes of the call: the
\* completing branch calls addCompletionLog (the log write, then the
\* statistics write) before saveTasks, so the call can stop after the first
\* or after the second of its three writes; the other branches write once
updateTaskStepStops(store, taskId, stepId, completed, t) ==
  LET done == updateTaskStep(store, taskId, stepId, completed, t)
  IN IF done.logs = store.logs THEN {}
     ELSE {[store EXCEPT !.logs = done.logs],
           [store EXCEPT !.logs = done.logs, !.statistics = done.statistics]}

\* C21: when the updateTaskStep call that completes a task stops between two
\* of its storage writes, the tasks have been saved before the log was
\* appended: the stored task is completed and has no log entry yet, and no
\* log entry is stored for a task that is not stored as completed.
C21_TaskSavedBeforeLog ==
  \A task \in StoredTasks :
    \A j \in 1..Len(task.steps) :
      \A stop \in updateTaskStepStops(ls, task.id, task.steps[j].id, TRUE, now) :
        /\ TaskById(stop, task.id).status = "completed"
        /\ LogsOf(stop, task.id) = LogsOf(ls, task.id)

----------------------------------------------------------------------------
(* The goal-input page while its request is outstanding *)

NextHome ==
  Tick \/ UpdateSetting \/ SaveSettings \/ ClearAllData \/ Reload
    \/ HomeSubmit \/ HomeLeave \/ HomeRespond \/ HomeOpen

SpecHome == Init /\ [][NextHome]_vars

\* C22: when the user has left the goal-input page while its request was
\* outstanding, the response or failure that arrives later is discarded: no
\* task is added to the storage and navigate is not called.
C22_ResponseDiscardedAfterLeaving ==
  [][(\/ home.pc = "waiting" /\ home.left /\ home'.pc = "done"
      \/ Len(home'.old) < Len(home.old) /\ conn' = conn)
       => (getTasks(ls') = getTasks(ls) /\ home'.navigated = home.navigated)]_vars

----------------------------------------------------------------------------
(* The step toggle of the execution page *)

\* C23: for every stored task and step, the toggle of the execution page
\* stores the same task status, completedSteps and step flags, and the same
\* completion-log entries (as many, with the same step reference and the
\* same duration), as updateTaskStep(taskId, stepId, not completed).
C23_ToggleIsUpdateTaskStep ==
  \A task \in StoredTasks :
    \A j \in 1..Len(task.steps) :
      LET toggled == toggleStepCompletion(ls, task, task.steps[j].id, now, {})
          updated == updateTaskStep(ls, task.id, task.steps[j].id,
                                    ~task.steps[j].completed, now)
          a == TaskById(toggled, task.id)
          b == TaskById(updated, task.id)
          la == getCompletionLogs(toggled)
          lb == getCompletionLogs(updated)
      IN /\ a.status = b.status
         /\ a.completedSteps = b.completedSteps
         /\ \A i \in 1..Len(task.steps) : a.steps[i].completed = b.steps[i].completed
         /\ Len(la) = Len(lb)
         /\ \A k \in 1..Len(la) :
              la[k].stepId = lb[k].stepId /\ la[k].duration = lb[k].duration

----------------------------------------------------------------------------
(* The task statistics summary *)

\* the object getTaskStatistics returns.  completionRate is computed into a
\* local constant and is not a field of the result; averageStepsPerTask is
\* returned as averageCompletionTime, rounded to two decimals
\* (Math.round(x * 100) / 100), kept here as the number of hundredths.
\* The quotient and the product are doubles, each rounded to 53 bits, so
\* where a / b * 100 is exactly k + 1/2 the product may fall below it and
\* Math.round gives k in the place of k + 1: it does when the quotient was
\* rounded down, by r / b of a unit in its last place, and 100 times that
\* error is more than half a unit in the last place of the product.  Away
\* from the halves the errors are too small to change the result.
getTaskStatistics(store) ==
  LET tasks == getTasks(store)
      withStatus(status) == Cardinality({i \in 1..Len(tasks) : tasks[i].status = status})
      totalTasks == Len(tasks)
      totalSteps == SumSeq([i \in 1..Len(tasks) |-> tasks[i].totalSteps])
      RECURSIVE floorLog2(_, _), pow2(_), pow2Mod(_, _)
      \* the exponent of the double n / d, for n > 0 and d > 0
      floorLog2(n, d) == IF n >= 2 * d THEN 1 + floorLog2(n, 2 * d)
                         ELSE IF n < d THEN floorLog2(2 * n, d) - 1
                         ELSE 0
      pow2(e) == IF e = 0 THEN 1 ELSE 2 * pow2(e - 1)
      pow2Mod(e, d) == IF e = 0 THEN 1 % d ELSE (2 * pow2Mod(e - 1, d)) % d
      \* Math.round(a / b * 100), for a >= 0 and b > 0
      roundTimes100(a, b) ==
        LET exact == MathRoundDiv(100 * a, b)
            k == exact - 1
            ex == floorLog2(a, b)
            r == ((a % b) * pow2Mod(52 - ex, b)) % b
            ey == IF k = 0 THEN 0 - 2 ELSE floorLog2(k, 1)
        IN IF a = 0 \/ (200 * a) % b # 0 \/ ((200 * a) \div b) % 2 = 0 THEN exact
           ELSE IF 0 < r /\ 2 * r < b /\ 200 * r > b * pow2(ey - ex) THEN k
           ELSE exact
  IN [totalTasks |-> totalTasks,
      completedTasks |-> withStatus("completed"),
      pendingTasks |-> withStatus("pending"),
      inProgressTasks |-> withStatus("in_progress"),
      averageCompletionTime |-> IF totalTasks > 0
                                THEN roundTimes100(totalSteps, totalTasks)
                                ELSE 0,
      totalTimeSpent |-> 0,
      dailyStats |-> NoDailyStats,
      weeklyStats |-> <<>>,
      monthlyStats |-> <<>>]

\* C24: for every stored task collection getTaskStatistics reports the
\* completion rate completedTasks / totalTasks * 100 (0 without tasks) and
\* the average number of steps per task, and its totalTasks is the sum of
\* its completed, pending and in-progress counts.
C24_TaskStatisticsReported ==
  LET r == getTaskStatistics(ls)
      tasks == getTasks(ls)
  IN /\ r.totalTasks = r.completedTasks + r.pendingTasks + r.inProgressTasks
     /\ r.averageCompletionTime =
          IF Len(tasks) = 0 THEN 0
          ELSE MathRoundDiv(100 * SumSeq([i \in 1..Len(tasks) |-> tasks[i].totalSteps]),
                            Len(tasks))
     /\ "completionRate" \in DOMAIN r
     /\ IF Len(tasks) = 0 THEN r.completionRate = 0
        ELSE r.completionRate * Len(tasks) = 100 * r.completedTasks

----------------------------------------------------------------------------
(* importData on a medium that may reject writes *)

\* importData: the catch block rethrows what saveTasks, saveSettings or the
\* setItem of the logs throw; saveStatistics catches its own error, so a
\* rejected statistics write does not reach the catch block
importDataOn(store, data, rejects) ==
  LET failed(w) == [ok |-> FALSE, error |-> "ImportFailed", store |-> w.store]
      w1 == IF "tasks" \in DOMAIN data THEN saveTasksOn(store, data.tasks, rejects)
            ELSE [ok |-> TRUE, error |-> "", store |-> store]
      w2 == IF "settings" \in DOMAIN data
            THEN saveSettingsOn(w1.store, data.settings, rejects)
            ELSE w1
      w3 == IF "statistics" \in DOMAIN data
            THEN saveStatisticsOn(w2.store, data.statistics, rejects)
            ELSE w2
      w4 == IF "completionLogs" \in DOMAIN data
            THEN setItem(w3.store, "logs",
                         [present |-> TRUE, logs |-> data.completionLogs], rejects)
            ELSE w3
  IN IF ~w1.ok THEN failed(w1)
     ELSE IF ~w2.ok THEN failed(w2)
     ELSE IF ~w3.ok THEN failed(w3)
     ELSE IF ~w4.ok THEN failed(w4)
     ELSE w4

\* the keys in the order importData writes them, with the field of the
\* imported file each is written from
ImportOrder ==
  << [key |-> "tasks", field |-> "tasks"],
     [key |-> "settings", field |-> "settings"],
     [key |-> "statistics", field |-> "statistics"],
     [key |-> "logs", field |-> "completionLogs"] >>

\* C25: importData stops at the first write that fails, in the order tasks,
\* settings, statistics, completion logs: it fails with an error to the
\* caller, the keys written before keep their imported values, and the
\* failing key and the keys after it are not written.
C25_ImportAbortsOnFirstFailure ==
  \A data \in ImportBlobs :
    \A n \in 1..Len(ImportOrder) :
      ImportOrder[n].field \in DOMAIN data =>
        LET r == importDataOn(ls, data, {ImportOrder[n].key})
        IN /\ ~r.ok
           /\ \A m \in 1..Len(ImportOrder) :
                r.store[ImportOrder[m].key] =
                  IF m < n THEN importData(ls, data)[ImportOrder[m].key]
                  ELSE ls[ImportOrder[m].key]

----------------------------------------------------------------------------
(* The three tiers of parseAIResponse *)

\* one reply of the model: a message whose content is a text or is missing
InitParse ==
  /\ ls = EmptyStore
  /\ now = 0
  /\ dec \in [pc : {"idle"}, goal : {<<"g">>}, apiKey : {<<"k">>},
               net : {n \in NetOutcomes : n.choices # <<>>}, result : {NoResult}]
  /\ conn = IdleConn
  /\ tabs = IdleTabs
  /\ home = IdleHome
  /\ conv = IdleConv

\* parseAIResponse(data.choices[0].message)
ParseAIResponse ==
  /\ dec.pc = "idle"
  /\ dec.net.choices # <<>>
  /\ dec' = [dec EXCEPT !.pc = "done", !.result = parseAIResponse(dec.net.choices[1])]
  /\ UNCHANGED <<ls, now, conn, tabs, home, conv>>

NextParse == ParseAIResponse

SpecParse == InitParse /\ [][NextParse]_vars

\* C26: the steps of a reply are those of the whole content parsed as JSON
\* when that has a steps array; otherwise those of the brace-delimited part
\* parsed as JSON when that has a steps array; otherwise those of the text
\* parser; and parsing raises no error for any content string.
C26_ThreeTierParsing ==
  (dec.pc = "done" /\ dec.net.choices # <<>> /\ dec.net.choices[1].isString) =>
    LET content == dec.net.choices[1].content
        whole == JSONparse(content)
        part == jsonMatch(content)
        extracted == JSONparse(part.text)
    IN /\ dec.result.ok
       /\ dec.result.steps =
            IF whole.ok /\ whole.hasSteps THEN whole.steps
            ELSE IF part.found /\ extracted.ok /\ extracted.hasSteps
            THEN extracted.steps
            ELSE fallbackTextParsing(content).steps

\* a reply whose content is some text before a JSON object with two steps:
\* the whole does not parse, the steps are those of the object, where the
\* text parser would have returned six
C26_Witness ==
  /\ dec.pc = "done"
  /\ dec.net.choices # <<>>
  /\ dec.net.choices[1].isString
  /\ Len(dec.net.choices[1].content) = 2
  /\ ~JSONparse(dec.net.choices[1].content).ok
  /\ jsonMatch(dec.net.choices[1].content).found
  /\ jsonMatch(dec.net.choices[1].content).text = <<ObjArr(2)>>
  /\ Len(dec.result.steps) = 2
  /\ Len(fallbackTextParsing(dec.net.choices[1].content).steps) = MinFallbackSteps

----------------------------------------------------------------------------
(* The conversion of one step content *)

\* the longest step content of the input set
MaxStepLen == 101

\* the step contents: every start (nothing, a capital, a keyword of one tier,
\* keywords of two tiers in both orders, a keyword split by a character)
\* filled up to every length, and texts with a full-width colon at the start,
\* inside or twice
StepContents ==
  {start \o Chars(n - Len(start)) :
     start \in {<<>>, <<"A">>,
                <<"zheng", "li">>, <<"kai", "fa">>, <<"fen", "xi1">>,
                <<"zheng", "li", "kai", "fa">>, <<"kai", "fa", "zheng", "li">>,
                <<"kai", "fa", "fen", "xi1">>, <<"fen", "xi1", "kai", "fa">>,
                <<"fen", "xi1", "que", "ren">>,
                <<"zheng", "a", "li">>},
     n \in 0..MaxStepLen}
    \cup {Chars(i) \o <<FullWidthColon>> \o Chars(j) : i \in {0, 1, 19, 20, 21}, j \in {0, 1, 21}}
    \cup {Chars(1) \o <<FullWidthColon>> \o Chars(1) \o <<FullWidthColon>> \o Chars(1)}

InitSteps ==
  /\ ls = EmptyStore
  /\ now = 0
  /\ dec = IdleDec
  /\ conn = IdleConn
  /\ tabs = IdleTabs
  /\ home = IdleHome
  /\ conv \in [content : StepContents, done : {FALSE}, steps : {<<>>}]

\* convertToTaskSteps on a list of one parsed step
ConvertToTaskSteps ==
  /\ ~conv.done
  /\ conv' = [conv EXCEPT
                !.done = TRUE,
                !.steps = convertToTaskSteps(<<[isString |-> TRUE, content |-> conv.content]>>,
                                             now).steps]
  /\ UNCHANGED <<ls, now, dec, conn, tabs, home>>

NextSteps == ConvertToTaskSteps

SpecSteps == InitSteps /\ [][NextSteps]_vars

\* C27: the estimated minutes of a step are a function of its content and at
\* least 10: the base is 15, 20, 30 or 45 for a length up to 30, up to 60, up
\* to 100 or above; a quick keyword gives max(base - 5, 10), else a complex
\* keyword base + 15, else a medium keyword base + 5, else the base.
C27_EstimateByLengthAndKeywordTier ==
  conv.done =>
    LET minutes == conv.steps[1].estimatedMinutes
        length == Len(conv.content)
        base == IF length <= 30 THEN 15
                ELSE IF length <= 60 THEN 20
                ELSE IF length <= 100 THEN 30
                ELSE 45
    IN /\ minutes >= 10
       /\ minutes = estimateStepDuration(conv.content)
       /\ someIncluded(conv.content, quickKeywords, "quick") =>
            minutes = Max({base - 5, 10})
       /\ (~someIncluded(conv.content, quickKeywords, "quick")
           /\ someIncluded(conv.content, complexKeywords, "complex")) =>
            minutes = base + 15
       /\ (/\ ~someIncluded(conv.content, quickKeywords, "quick")
           /\ ~someIncluded(conv.content, complexKeywords, "complex")
           /\ someIncluded(conv.content, mediumKeywords, "medium")) =>
            minutes = base + 5
       /\ (/\ ~someIncluded(conv.content, quickKeywords, "quick")
           /\ ~someIncluded(conv.content, complexKeywords, "complex")
           /\ ~someIncluded(conv.content, mediumKeywords, "medium")) =>
            minutes = base

\* a converted content of 101 characters that starts with a complex keyword
\* followed by a quick one: 45 - 5 minutes
C27_Witness ==
  /\ conv.done
  /\ Len(conv.content) = 101
  /\ SubSeq(conv.content, 1, 4) = <<"kai", "fa", "zheng", "li">>
  /\ conv.steps[1].estimatedMinutes = 40

\* C28: the title of a step is the text before the first full-width colon
\* when its content has one, and otherwise the first 20 characters of the
\* content followed by three dots.
C28_TitleBeforeColonOrTruncated ==
  conv.done =>
    conv.steps[1].title =
      IF \E i \in 1..Len(conv.content) : conv.content[i] = FullWidthColon
      THEN SubSeq(conv.content, 1,
                  Min({i \in 1..Len(conv.content) : conv.content[i] = FullWidthColon}) - 1)
      ELSE SubSeq(conv.content, 1, Min({20, Len(conv.content)})) \o <<".", ".", ".">>

----------------------------------------------------------------------------
(* Completion logs and daily statistics *)

\* addCompletionLog called on its own
AddCompletionLog ==
  \E log \in LogInputs :
    /\ Len(getCompletionLogs(ls)) < MaxLogs
    /\ ls' = addCompletionLog(ls, log)
    /\ UNCHANGED <<now, dec, conn, tabs, home, conv>>

NextLogs ==
  Tick \/ AddTask \/ UpdateTaskStep \/ AddCompletionLog \/ ClearAllData \/ Reload

SpecLogs == Init /\ [][NextLogs]_vars

\* C29: from the empty storage, after any calls of addCompletionLog,
\* updateTaskStep and clearAllData, the tasksCompleted of all day buckets add
\* up to the number of stored logs and their totalTimeSpent to the sum of the
\* durations of the stored logs.
C29_StatisticsAgreeWithLogs ==
  LET days == getStatistics(ls).dailyStats
      logs == getCompletionLogs(ls)
      last == IF DOMAIN days = {} THEN 0 ELSE Max(DOMAIN days) + 1
      bucket(d) == IF d \in DOMAIN days THEN days[d]
                   ELSE [tasksCompleted |-> 0, totalTimeSpent |-> 0]
  IN /\ SumSeq([n \in 1..last |-> bucket(n - 1).tasksCompleted]) = Len(logs)
     /\ SumSeq([n \in 1..last |-> bucket(n - 1).totalTimeSpent]) =
          SumSeq([k \in 1..Len(logs) |-> logs[k].duration])

\* a log written by updateTaskStep for a stored task and a log added on its
\* own, in the buckets of two days, with a positive total time
C29_Witness ==
  /\ ls.tasks.present
  /\ Len(getCompletionLogs(ls)) = 2
  /\ \E k \in 1..2 : /\ getCompletionLogs(ls)[k].taskId # NoDate
                     /\ findById(getTasks(ls), getCompletionLogs(ls)[k].taskId) # 0
  /\ \E k \in 1..2 : getCompletionLogs(ls)[k].taskId = NoDate
  /\ Cardinality(DOMAIN getStatistics(ls).dailyStats) = 2
  /\ SumSeq([k \in 1..2 |-> getCompletionLogs(ls)[k].duration]) > 0

----------------------------------------------------------------------------
(* What updateTaskStep leaves alone *)

\* C30: updateTaskStep with a task id that is not stored, or a step id that
\* is not in the task, writes no key and reports no error; a call that finds
\* its step sets the flag and the stamp of that step and leaves every other
\* step and every other task as they were.
C30_UpdateTaskStepFrame ==
  LET before == getTasks(ls)
  IN \A taskId \in TaskIdInputs :
       LET ti == findById(before, taskId)
       IN \A stepId \in StepIdInputs :
            LET si == IF ti = 0 THEN 0 ELSE findById(before[ti].steps, stepId)
            IN \A completed \in BOOLEAN :
                 LET r == updateTaskStepOn(ls, taskId, stepId, completed, now, {})
                     after == getTasks(r.store)
                 IN /\ r.ok
                    /\ (ti = 0 \/ si = 0) => r.store = ls
                    /\ (ti # 0 /\ si # 0) =>
                         /\ Len(after) = Len(before)
                         /\ \A i \in 1..Len(before) : i # ti => after[i] = before[i]
                         /\ Len(after[ti].steps) = Len(before[ti].steps)
                         /\ \A j \in 1..Len(before[ti].steps) :
                              j # si => after[ti].steps[j] = before[ti].steps[j]
                         /\ after[ti].steps[si] =
                              [before[ti].steps[si] EXCEPT
                                 !.completed = completed,
                                 !.completedAt = IF completed THEN now ELSE NoDate]

\* two stored tasks: the first step of the two-step task was completed by
\* updateTaskStep, its second step and the other task are as they were made
C30_Witness ==
  /\ Len(getTasks(ls)) = 2
  /\ \E i \in 1..2 :
       /\ Len(getTasks(ls)[i].steps) = 2
       /\ getTasks(ls)[i].steps[1].completed
       /\ getTasks(ls)[i].steps[1].completedAt > getTasks(ls)[i].createdAt
       /\ ~getTasks(ls)[i].steps[2].completed
       /\ getTasks(ls)[i].steps[2].completedAt = NoDate
       /\ getTasks(ls)[i].status = "in_progress"
       /\ getTasks(ls)[3 - i].status = "pending"
       /\ getTasks(ls)[3 - i].completedSteps = 0

====
